---------------------------- MODULE Spec2Model ----------------------------
(***************************************************************************)
(* Model of ChartStateService (chart-state.service.ts) and of the handlers *)
(* of AppComponent (app.component.ts) that drive it.                       *)
(*                                                                         *)
(* A JavaScript Map is modelled as a sequence of entries [k |-> key,       *)
(* v |-> value] in insertion order; a Set as a sequence without            *)
(* duplicates in insertion order.  An optional property of an object is a  *)
(* field that the record has or does not have.  JSON.stringify drops a     *)
(* property whose value is undefined; the model identifies such a property *)
(* with an absent one.  Coordinates are integers: every width the model    *)
(* feeds in is even, so that the halvings of autoLayout are exact.         *)
(***************************************************************************)
EXTENDS Integers, Sequences, FiniteSets, TLC

VARIABLES
  nodes,              \* Map<string, ChartNode>
  nodePositions,      \* Map<string, NodePosition>
  drawings,           \* Drawing[]
  selectedNodeIds,    \* Set<string>, insertion ordered
  selectedDrawingIds, \* Set<string>, insertion ordered
  selectedEdgeId,     \* string | null
  undoStack,          \* HistorySnapshot[]
  redoStack,          \* HistorySnapshot[]
  clipboard,          \* ClipboardItem[]
  isDraggingNode,     \* AppComponent.isDraggingNode
  dragNodeId,         \* AppComponent.dragNodeId: string | null
  idCount,            \* number of ids drawn from Math.random so far
  steps,              \* number of commands still to be issued
  last                \* the command issued last, and the state it started from

store == <<nodes, nodePositions, drawings>>
vars == <<nodes, nodePositions, drawings, selectedNodeIds, selectedDrawingIds,
          selectedEdgeId, undoStack, redoStack, clipboard, isDraggingNode,
          dragNodeId, idCount, steps, last>>

-----------------------------------------------------------------------------
(* Bounds of the model *)

MaxSteps == 2
MaxTopoSteps == 3
MaxRecordSteps == 3
MaxUndoRedoSteps == 5
MaxHistorySteps == 53
MaxPasteSteps == 4
MaxMemberSteps == 4
MaxDragSteps == 4
MaxRenameSteps == 4
MaxLayoutSteps == 3
MaxClipboardSteps == 4
MaxDragUndoSteps == 5
MaxImportSteps == 52
MaxNewIds == 2

-----------------------------------------------------------------------------
(* Program constants *)

maxHistorySize == 50
CARD_WIDTH == 250
LEVEL_HEIGHT == 400
GROUP_PADDING == 150
GROUP_MARGIN == 800
NODE_MARGIN == 80
BOX_PADDING_SIDE == 100
BOX_PADDING_TOP == 100
BOX_PADDING_BOTTOM == 140

null == "null"
functionalTypes == {"executive", "manager", "employee"}

-----------------------------------------------------------------------------
(* JavaScript Map, Set and optional properties *)

Has(m, key) == \E i \in 1..Len(m) : m[i].k = key
IndexOf(m, key) == CHOOSE i \in 1..Len(m) : m[i].k = key
Get(m, key) == m[IndexOf(m, key)].v
Put(m, key, val) ==
  IF Has(m, key) THEN [m EXCEPT ![IndexOf(m, key)] = [k |-> key, v |-> val]]
  ELSE Append(m, [k |-> key, v |-> val])
Del(m, key) == SelectSeq(m, LAMBDA e : e.k # key)
KeySet(m) == {m[i].k : i \in 1..Len(m)}
Values(m) == [i \in 1..Len(m) |-> m[i].v]

Range(s) == {s[i] : i \in 1..Len(s)}
SetAdd(s, x) == IF x \in Range(s) THEN s ELSE Append(s, x)
SetDelete(s, x) == SelectSeq(s, LAMBDA y : y # x)

\* { ...rec, field: val }
With(rec, field, val) ==
  [f \in (DOMAIN rec) \cup {field} |-> IF f = field THEN val ELSE rec[f]]
HasField(rec, field) == field \in DOMAIN rec
\* rec.field || dflt, for a number property
NumOr(rec, field, dflt) ==
  IF HasField(rec, field) /\ rec[field] # 0 THEN rec[field] ELSE dflt

\* node.children of a node record (always present in this model's nodes)
ChildrenOf(m, id) == IF Has(m, id) THEN Get(m, id).children ELSE <<>>
\* map.get(id)?.department || ''
DeptOf(m, id) ==
  IF Has(m, id) /\ HasField(Get(m, id), "department") THEN Get(m, id).department ELSE ""

-----------------------------------------------------------------------------
(* Ordering of the strings used as department names (JavaScript compares  *)
(* strings by code units)                                                  *)

DeptOrder == <<"", "Growth", "Management", "Marketing", "New Area", "Product">>
DeptRank(d) == CHOOSE i \in 1..Len(DeptOrder) : DeptOrder[i] = d

SetMin(S) == CHOOSE x \in S : \A y \in S : x <= y
SetMax(S) == CHOOSE x \in S : \A y \in S : x >= y

-----------------------------------------------------------------------------
(* Template construction *)

\* _addNode; the styling properties, avatar and level are left out
_addNode(st, id, name, type, dept, x, y, children) ==
  [map |-> Put(st.map, id, [id |-> id, name |-> name, type |-> type,
                            department |-> dept, children |-> children]),
   pos |-> Put(st.pos, id, [x |-> x, y |-> y, width |-> 208, height |-> 100])]

addGroup(st, id, name, x, y, width, height) ==
  [map |-> Put(st.map, id, [id |-> id, name |-> name, type |-> "group",
                            department |-> "", children |-> <<>>]),
   pos |-> Put(st.pos, id, [x |-> x, y |-> y, width |-> width, height |-> height])]

-----------------------------------------------------------------------------
(* autoLayout *)

RECURSIVE InsertSorted_unstable(_, _, _)
InsertSorted_unstable(map, sorted, id) ==
  IF sorted = <<>> THEN <<id>>
  ELSE IF DeptRank(DeptOf(map, sorted[Len(sorted)])) < DeptRank(DeptOf(map, id))
       THEN Append(sorted, id)
       ELSE Append(InsertSorted_unstable(map, SubSeq(sorted, 1, Len(sorted) - 1), id),
                   sorted[Len(sorted)])

\* sortChildrenByDepartment: Array.prototype.sort is stable
RECURSIVE InsertSorted(_, _, _)
InsertSorted(map, sorted, id) ==
  IF sorted = <<>> THEN <<id>>
  ELSE IF DeptRank(DeptOf(map, sorted[Len(sorted)])) <= DeptRank(DeptOf(map, id))
       THEN Append(sorted, id)
       ELSE Append(InsertSorted(map, SubSeq(sorted, 1, Len(sorted) - 1), id),
                   sorted[Len(sorted)])
RECURSIVE StableSort(_, _, _)
StableSort(map, done, rest) ==
  IF rest = <<>> THEN done
  ELSE StableSort(map, InsertSorted(map, done, Head(rest)), Tail(rest))

sortChildrenByDepartment(map) ==
  [i \in 1..Len(map) |->
     IF Len(map[i].v.children) > 1
     THEN [k |-> map[i].k,
           v |-> With(map[i].v, "children", StableSort(map, <<>>, map[i].v.children))]
     ELSE map[i]]

\* index after the end of the run of children that starts at i and shares its department
BlockEnd(map, children, i) ==
  LET startDept == DeptOf(map, children[i])
      other == {j \in i..Len(children) : DeptOf(map, children[j]) # startDept}
  IN IF other = {} THEN Len(children) + 1 ELSE SetMin(other)

RECURSIVE measureSubtree(_, _)
RECURSIVE measureRun(_, _, _, _)
RECURSIVE measureBlocks(_, _, _)
\* inner loop of measureSubtree over children[i..j-1], i being the block start
measureRun(map, children, i, j) ==
  IF j <= i THEN 0
  ELSE measureRun(map, children, i, j - 1)
       + (IF j - 1 > i THEN NODE_MARGIN ELSE 0)
       + measureSubtree(map, children[j - 1])
\* outer loop of measureSubtree from block start i
measureBlocks(map, children, i) ==
  IF i > Len(children) THEN 0
  ELSE LET startDept == DeptOf(map, children[i])
           j == BlockEnd(map, children, i)
           blockWidth == measureRun(map, children, i, j)
                         + (IF startDept # "" THEN GROUP_PADDING * 2 ELSE 0)
       IN blockWidth + (IF j <= Len(children) THEN GROUP_MARGIN ELSE 0)
          + measureBlocks(map, children, j)
measureSubtree(map, nodeId) ==
  IF ~Has(map, nodeId) THEN 0
  ELSE IF Len(Get(map, nodeId).children) = 0 THEN CARD_WIDTH
  ELSE measureBlocks(map, Get(map, nodeId).children, 1)

RECURSIVE executeLayout(_, _, _, _, _, _)
RECURSIVE layoutRun(_, _, _, _, _, _, _, _)
RECURSIVE layoutBlocks(_, _, _, _, _, _, _)
RECURSIVE nextBlock(_, _, _, _, _, _, _)
\* inner loop of executeLayout over children[k..j-1] of the block starting at i;
\* yields the new positions and currentX
layoutRun(map, cur, acc, children, i, k, j, depth) ==
  IF k >= j THEN acc
  ELSE LET x1 == IF k > i THEN acc.x + NODE_MARGIN ELSE acc.x
           childW == measureSubtree(map, children[k])
           np1 == executeLayout(map, cur, acc.np, children[k], x1, depth + 1)
       IN layoutRun(map, cur, [np |-> np1, x |-> x1 + childW], children, i, k + 1, j, depth)
\* outer loop of executeLayout from block start i
layoutBlocks(map, cur, np, children, i, currentX, depth) ==
  IF i > Len(children) THEN np
  ELSE LET startDept == DeptOf(map, children[i])
           j == BlockEnd(map, children, i)
           x0 == IF startDept # "" THEN currentX + GROUP_PADDING ELSE currentX
       IN nextBlock(map, cur,
                    layoutRun(map, cur, [np |-> np, x |-> x0], children, i, i, j, depth),
                    children, j, startDept, depth)
nextBlock_noPadding(map, cur, run, children, j, startDept, depth) ==
  LET x3 == IF j <= Len(children) THEN run.x + GROUP_MARGIN ELSE run.x
  IN layoutBlocks(map, cur, run.np, children, j, x3, depth)
\* the rest of the outer loop, `run' being what the inner loop left for the
\* block of department startDept that ends before j
nextBlock(map, cur, run, children, j, startDept, depth) ==
  LET x2 == IF startDept # "" THEN run.x + GROUP_PADDING ELSE run.x
      x3 == IF j <= Len(children) THEN x2 + GROUP_MARGIN ELSE x2
  IN layoutBlocks(map, cur, run.np, children, j, x3, depth)
executeLayout(map, cur, np, nodeId, x, depth) ==
  IF ~Has(map, nodeId) THEN np
  ELSE LET node == Get(map, nodeId)
           totalW == measureSubtree(map, nodeId)
           contentCenter == x + totalW \div 2
           width == IF Has(cur, nodeId) THEN NumOr(Get(cur, nodeId), "width", 208) ELSE 208
           height == IF Has(cur, nodeId) THEN NumOr(Get(cur, nodeId), "height", 100) ELSE 100
           np1 == Put(np, nodeId, [x |-> contentCenter - width \div 2,
                                   y |-> depth * LEVEL_HEIGHT + 50,
                                   width |-> width, height |-> height])
       IN layoutBlocks(map, cur, np1, node.children, 1, x, depth)

\* the node's centre lies inside the group's rectangle (compared in half units)
CenterInside(nodePos, groupPos) ==
  LET cx2 == 2 * nodePos.x + NumOr(nodePos, "width", 0)
      cy2 == 2 * nodePos.y + NumOr(nodePos, "height", 0)
  IN /\ cx2 >= 2 * groupPos.x
     /\ cx2 <= 2 * (groupPos.x + NumOr(groupPos, "width", 0))
     /\ cy2 >= 2 * groupPos.y
     /\ cy2 <= 2 * (groupPos.y + NumOr(groupPos, "height", 0))

anchoredNodes_centreOffset(map, cur) ==
  LET Groups(n) == {g \in 1..Len(map) :
                      /\ map[g].v.type = "group"
                      /\ Has(cur, map[g].k)
                      /\ CenterInside(Get(cur, map[n].k), Get(cur, map[g].k))}
      Anchored(n) == /\ map[n].v.type \in {"text", "note", "shape"}
                     /\ Has(cur, map[n].k)
                     /\ Groups(n) # {}
      Entry(n) == LET g == SetMax(Groups(n))
                  IN [k |-> map[n].k,
                      v |-> [groupId |-> map[g].k,
                             offsetX |-> Get(cur, map[n].k).x + NumOr(Get(cur, map[n].k), "width", 0) \div 2
                                         - Get(cur, map[g].k).x,
                             offsetY |-> Get(cur, map[n].k).y - Get(cur, map[g].k).y]]
      all == [n \in 1..Len(map) |-> IF Anchored(n) THEN <<Entry(n)>> ELSE <<>>]
      Cat[n \in 0..Len(map)] == IF n = 0 THEN <<>> ELSE Cat[n - 1] \o all[n]
  IN Cat[Len(map)]

\* STEP 0.5: for each text/note/shape node, the last group (in map order) containing its centre
anchoredNodes(map, cur) ==
  LET Groups(n) == {g \in 1..Len(map) :
                      /\ map[g].v.type = "group"
                      /\ Has(cur, map[g].k)
                      /\ CenterInside(Get(cur, map[n].k), Get(cur, map[g].k))}
      Anchored(n) == /\ map[n].v.type \in {"text", "note", "shape"}
                     /\ Has(cur, map[n].k)
                     /\ Groups(n) # {}
      Entry(n) == LET g == SetMax(Groups(n))
                  IN [k |-> map[n].k,
                      v |-> [groupId |-> map[g].k,
                             offsetX |-> Get(cur, map[n].k).x - Get(cur, map[g].k).x,
                             offsetY |-> Get(cur, map[n].k).y - Get(cur, map[g].k).y]]
      all == [n \in 1..Len(map) |-> IF Anchored(n) THEN <<Entry(n)>> ELSE <<>>]
      Cat[n \in 0..Len(map)] == IF n = 0 THEN <<>> ELSE Cat[n - 1] \o all[n]
  IN Cat[Len(map)]

\* 1. roots laid out left to right
RECURSIVE layoutRoots(_, _, _, _, _)
layoutRoots(map, cur, np, roots, rootX) ==
  IF roots = <<>> THEN np
  ELSE LET w == measureSubtree(map, Head(roots))
       IN layoutRoots(map, cur, executeLayout(map, cur, np, Head(roots), rootX, 0),
                      Tail(roots), rootX + w + GROUP_MARGIN + 200)

\* 2. non-hierarchy nodes keep their old position: currentPositions.forEach
\* sets newPositions at the ids of non-functional nodes (a key already there
\* keeps its place, a new key goes to the end)
transferOthers(map, cur, np) ==
  LET Moves(id) == Has(map, id) /\ Get(map, id).type \notin functionalTypes
  IN [i \in 1..Len(np) |->
        IF Moves(np[i].k) /\ Has(cur, np[i].k)
        THEN [k |-> np[i].k, v |-> Get(cur, np[i].k)] ELSE np[i]]
     \o SelectSeq(cur, LAMBDA e : Moves(e.k) /\ ~Has(np, e.k))

groupBox_noBottom(map, np, group) ==
  LET members == {m \in 1..Len(map) :
                    /\ HasField(map[m].v, "department")
                    /\ map[m].v.department = group.name
                    /\ map[m].k # group.id
                    /\ map[m].v.type \in functionalTypes}
      placed == {m \in members : Has(np, map[m].k)}
      P(m) == Get(np, map[m].k)
      minX == SetMin({P(m).x : m \in placed})
      minY == SetMin({P(m).y : m \in placed})
      maxX == SetMax({P(m).x + NumOr(P(m), "width", 208) : m \in placed})
      maxY == SetMax({P(m).y + NumOr(P(m), "height", 100) : m \in placed})
  IN IF placed = {} THEN <<>>
     ELSE <<[x |-> minX - BOX_PADDING_SIDE,
             y |-> minY - BOX_PADDING_TOP,
             width |-> (maxX - minX) + (BOX_PADDING_SIDE * 2),
             height |-> (maxY - minY) + (BOX_PADDING_TOP * 2)]>>

\* 3. the rectangle of a group around its members' new rectangles; <<>> when
\* no member has a new position
groupBox(map, np, group) ==
  LET members == {m \in 1..Len(map) :
                    /\ HasField(map[m].v, "department")
                    /\ map[m].v.department = group.name
                    /\ map[m].k # group.id
                    /\ map[m].v.type \in functionalTypes}
      placed == {m \in members : Has(np, map[m].k)}
      P(m) == Get(np, map[m].k)
      minX == SetMin({P(m).x : m \in placed})
      minY == SetMin({P(m).y : m \in placed})
      maxX == SetMax({P(m).x + NumOr(P(m), "width", 208) : m \in placed})
      maxY == SetMax({P(m).y + NumOr(P(m), "height", 100) : m \in placed})
  IN IF placed = {} THEN <<>>
     ELSE <<[x |-> minX - BOX_PADDING_SIDE,
             y |-> minY - BOX_PADDING_TOP,
             width |-> (maxX - minX) + (BOX_PADDING_SIDE * 2),
             height |-> (maxY - minY) + BOX_PADDING_TOP + BOX_PADDING_BOTTOM]>>

\* groups.forEach: the members are functional nodes, whose positions no group
\* box overwrites, so that the boxes do not depend on one another
fitGroups(map, np) ==
  LET IsGroup(id) == Has(map, id) /\ Get(map, id).type = "group"
      Box(id) == groupBox(map, np, Get(map, id))
  IN [i \in 1..Len(np) |->
        IF IsGroup(np[i].k) /\ Box(np[i].k) # <<>>
        THEN [k |-> np[i].k, v |-> Box(np[i].k)[1]] ELSE np[i]]
     \o [e \in 1..Len(SelectSeq(map, LAMBDA g : IsGroup(g.k) /\ ~Has(np, g.k)
                                                /\ Box(g.k) # <<>>)) |->
           LET g == SelectSeq(map, LAMBDA h : IsGroup(h.k) /\ ~Has(np, h.k)
                                              /\ Box(h.k) # <<>>)[e]
           IN [k |-> g.k, v |-> Box(g.k)[1]]]

reanchor_drift(anchors, np) ==
  [i \in 1..Len(np) |->
     IF Has(anchors, np[i].k) /\ Has(np, Get(anchors, np[i].k).groupId)
     THEN LET anchor == Get(anchors, np[i].k)
          IN [k |-> np[i].k,
              v |-> With(With(np[i].v, "x", Get(np, anchor.groupId).x + anchor.offsetX + 10),
                         "y", Get(np, anchor.groupId).y + anchor.offsetY)]
     ELSE np[i]]

\* 4. anchored nodes follow their group: an anchored node is a text, note or
\* shape and an anchor's group is a group, so that no anchor moves a group
reanchor(anchors, np) ==
  [i \in 1..Len(np) |->
     IF Has(anchors, np[i].k) /\ Has(np, Get(anchors, np[i].k).groupId)
     THEN LET anchor == Get(anchors, np[i].k)
          IN [k |-> np[i].k,
              v |-> With(With(np[i].v, "x", Get(np, anchor.groupId).x + anchor.offsetX),
                         "y", Get(np, anchor.groupId).y + anchor.offsetY)]
     ELSE np[i]]

\* the body of autoLayout after the optional saveHistory: the new node map
\* (children sorted in place) and the new positions
autoLayoutBody(map0, cur) ==
  LET anchors == anchoredNodes(map0, cur)
      map == sortChildrenByDepartment(map0)
      childrenSet == UNION {Range(map[i].v.children) : i \in 1..Len(map)}
      roots == SelectSeq([i \in 1..Len(map) |-> map[i].k],
                         LAMBDA id : id \notin childrenSet
                                     /\ Get(map, id).type \in functionalTypes)
      np1 == layoutRoots(map, cur, <<>>, roots, 0)
      np2 == transferOthers(map, cur, np1)
      np3 == fitGroups(map, np2)
      np4 == reanchor(anchors, np3)
  IN [map |-> map, pos |-> np4]

\* loadFunctionalChart, after the optional saveHistory
FunctionalChart ==
  LET s0 == [map |-> <<>>, pos |-> <<>>]
      s1 == addGroup(s0, "g1", "Management", 500, 50, 300, 300)
      s2 == addGroup(s1, "g2", "Growth", 200, 250, 300, 300)
      s3 == addGroup(s2, "g3", "Product", 800, 250, 300, 300)
      s4 == _addNode(s3, "1", "Sarah Connor", "executive", "Management", 600, 50, <<"2", "3">>)
      s5 == _addNode(s4, "2", "James Wright", "manager", "Growth", 350, 250, <<"2-1", "2-2">>)
      s6 == _addNode(s5, "2-1", "Growth Team", "employee", "Growth", 250, 450, <<>>)
      s7 == _addNode(s6, "2-2", "Brand Team", "employee", "Growth", 450, 450, <<>>)
      s8 == _addNode(s7, "3", "Emily Chen", "manager", "Product", 850, 250, <<"3-1", "3-2">>)
      s9 == _addNode(s8, "3-1", "Frontend", "employee", "Product", 750, 450, <<>>)
      s10 == _addNode(s9, "3-2", "Backend", "employee", "Product", 950, 450, <<>>)
  IN autoLayoutBody(s10.map, s10.pos)

-----------------------------------------------------------------------------
(* The service state as one record, and its methods as functions on it.   *)
(* `saves' counts the calls of saveHistory made by the running command.    *)

Cur ==
  [nodes |-> nodes, pos |-> nodePositions, drawings |-> drawings,
   selN |-> selectedNodeIds, selD |-> selectedDrawingIds, selE |-> selectedEdgeId,
   undo |-> undoStack, redo |-> redoStack, clip |-> clipboard,
   idCount |-> idCount, saves |-> 0]

\* Math.random().toString(36).substr(2, 9): an id that was never used before
NewIds == <<"n1", "n2", "n3", "n4", "n5", "n6", "n7", "n8", "n9", "n10", "n11", "n12">>
newId(S) == NewIds[S.idCount + 1]

-----------------------------------------------------------------------------
(* History management *)

\* JSON.parse(JSON.stringify(v)): a copy of v, property by property and element
\* by element.  The values of the model carry no undefined, NaN or Infinity.
JsonObject(r) == [f \in DOMAIN r |-> r[f]]
JsonEntries(m) == [i \in 1..Len(m) |-> [k |-> m[i].k, v |-> JsonObject(m[i].v)]]
JsonArray(a) == [i \in 1..Len(a) |-> JsonObject(a[i])]

saveHistory_keepRedo(S) ==
  LET snapshot == [nodes |-> JsonEntries(S.nodes),
                   positions |-> JsonEntries(S.pos),
                   drawings |-> JsonArray(S.drawings)]
      pushed == Append(S.undo, snapshot)
  IN [S EXCEPT !.undo = IF Len(pushed) > maxHistorySize THEN Tail(pushed) ELSE pushed,
               !.saves = @ + 1]

saveHistory_noShift(S) ==
  LET snapshot == [nodes |-> JsonEntries(S.nodes),
                   positions |-> JsonEntries(S.pos),
                   drawings |-> JsonArray(S.drawings)]
  IN [S EXCEPT !.undo = Append(S.undo, snapshot), !.redo = <<>>, !.saves = @ + 1]

saveHistory(S) ==
  LET snapshot == [nodes |-> JsonEntries(S.nodes),
                   positions |-> JsonEntries(S.pos),
                   drawings |-> JsonArray(S.drawings)]
      pushed == Append(S.undo, snapshot)
  IN [S EXCEPT !.undo = IF Len(pushed) > maxHistorySize THEN Tail(pushed) ELSE pushed,
               !.redo = <<>>,
               !.saves = @ + 1]

clearSelection(S) == [S EXCEPT !.selN = <<>>, !.selD = <<>>, !.selE = null]

applySnapshot(S, snapshot) ==
  clearSelection([S EXCEPT !.nodes = snapshot.nodes,
                           !.pos = snapshot.positions,
                           !.drawings = snapshot.drawings])

\* the snapshots undo and redo push hold the current maps' entries themselves;
\* every later write replaces the maps and the objects in them, and the one
\* in-place write (the sort of autoLayout) runs right after saveHistory on
\* objects no stack refers to, so that they behave as copies
currentSnapshot(S) == [nodes |-> S.nodes, positions |-> S.pos, drawings |-> S.drawings]

undo(S) ==
  IF Len(S.undo) = 0 THEN S
  ELSE applySnapshot([S EXCEPT !.redo = Append(S.redo, currentSnapshot(S)),
                               !.undo = SubSeq(S.undo, 1, Len(S.undo) - 1)],
                     S.undo[Len(S.undo)])

redo_dropUndo(S) ==
  IF Len(S.redo) = 0 THEN S
  ELSE applySnapshot([S EXCEPT !.redo = SubSeq(S.redo, 1, Len(S.redo) - 1)],
                     S.redo[Len(S.redo)])

redo(S) ==
  IF Len(S.redo) = 0 THEN S
  ELSE applySnapshot([S EXCEPT !.undo = Append(S.undo, currentSnapshot(S)),
                               !.redo = SubSeq(S.redo, 1, Len(S.redo) - 1)],
                     S.redo[Len(S.redo)])

clearChart(S) == clearSelection([S EXCEPT !.nodes = <<>>, !.pos = <<>>, !.drawings = <<>>])

-----------------------------------------------------------------------------
(* Template loaders and layout *)

\* this.nodes.set(map); this.nodePositions.set(pos)
setChart(S, chart) == [S EXCEPT !.nodes = chart.map, !.pos = chart.pos]

\* saveHistory leaves nodes and nodePositions as they are
autoLayout(S, saveState) ==
  setChart(IF saveState THEN saveHistory(S) ELSE S, autoLayoutBody(S.nodes, S.pos))

loadFunctionalChart(S, saveState) ==
  setChart(IF saveState THEN saveHistory(S) ELSE S, FunctionalChart)

loadWhiteboard(S, saveState) ==
  clearChart(IF saveState THEN saveHistory(S) ELSE S)

-----------------------------------------------------------------------------
(* Topology actions *)

removeFromParent(map, childId) ==
  [i \in 1..Len(map) |->
     IF childId \in Range(map[i].v.children)
     THEN [k |-> map[i].k,
           v |-> With(map[i].v, "children",
                      SelectSeq(map[i].v.children, LAMBDA c : c # childId))]
     ELSE map[i]]

RECURSIVE isDescendant(_, _, _)
isDescendant_never(map, rootId, searchId) == FALSE
isDescendant(map, rootId, searchId) ==
  IF ~Has(map, rootId) THEN FALSE
  ELSE \E i \in 1..Len(Get(map, rootId).children) :
         LET childId == Get(map, rootId).children[i]
         IN childId = searchId \/ isDescendant(map, childId, searchId)

linkNodes_keepParent(S, sourceId, targetId) ==
  IF sourceId = targetId THEN S
  ELSE IF Has(S.nodes, sourceId) /\ targetId \in Range(Get(S.nodes, sourceId).children) THEN S
  ELSE IF isDescendant(S.nodes, targetId, sourceId) THEN S
  ELSE LET S1 == saveHistory(S)
       IN IF Has(S1.nodes, sourceId)
          THEN LET node == Get(S1.nodes, sourceId)
               IN [S1 EXCEPT !.nodes = Put(S1.nodes, sourceId,
                                           With(node, "children", Append(node.children, targetId)))]
          ELSE S1

linkNodes_selfLink(S, sourceId, targetId) ==
  IF Has(S.nodes, sourceId) /\ targetId \in Range(Get(S.nodes, sourceId).children) THEN S
  ELSE IF isDescendant(S.nodes, targetId, sourceId) THEN S
  ELSE LET S1 == saveHistory(S)
       IN IF Has(S1.nodes, sourceId)
          THEN LET node == Get(S1.nodes, sourceId)
                   newMap == removeFromParent(S1.nodes, targetId)
               IN [S1 EXCEPT !.nodes = Put(newMap, sourceId,
                                           With(node, "children", Append(node.children, targetId)))]
          ELSE S1

linkNodes_swapped(S, sourceId, targetId) ==
  IF sourceId = targetId THEN S
  ELSE IF Has(S.nodes, sourceId) /\ targetId \in Range(Get(S.nodes, sourceId).children) THEN S
  ELSE IF isDescendant(S.nodes, sourceId, targetId) THEN S
  ELSE LET S1 == saveHistory(S)
       IN IF Has(S1.nodes, sourceId)
          THEN LET node == Get(S1.nodes, sourceId)
                   newMap == removeFromParent(S1.nodes, targetId)
               IN [S1 EXCEPT !.nodes = Put(newMap, sourceId,
                                           With(node, "children", Append(node.children, targetId)))]
          ELSE S1

linkNodes_prepend(S, sourceId, targetId) ==
  IF sourceId = targetId THEN S
  ELSE IF Has(S.nodes, sourceId) /\ targetId \in Range(Get(S.nodes, sourceId).children) THEN S
  ELSE IF isDescendant(S.nodes, targetId, sourceId) THEN S
  ELSE LET S1 == saveHistory(S)
       IN IF Has(S1.nodes, sourceId)
          THEN LET node == Get(S1.nodes, sourceId)
                   newMap == removeFromParent(S1.nodes, targetId)
               IN [S1 EXCEPT !.nodes = Put(newMap, sourceId,
                                           With(node, "children", <<targetId>> \o node.children))]
          ELSE S1

linkNodes(S, sourceId, targetId) ==
  IF sourceId = targetId THEN S
  ELSE IF Has(S.nodes, sourceId) /\ targetId \in Range(Get(S.nodes, sourceId).children) THEN S
  ELSE IF isDescendant(S.nodes, targetId, sourceId) THEN S   \* alert(...)
  ELSE LET S1 == saveHistory(S)
       IN IF Has(S1.nodes, sourceId)
          THEN LET node == Get(S1.nodes, sourceId)
                   newMap == removeFromParent(S1.nodes, targetId)
               IN [S1 EXCEPT !.nodes = Put(newMap, sourceId,
                                           With(node, "children", Append(node.children, targetId)))]
          ELSE S1

unlinkEdge(S, sourceId, targetId) ==
  IF Has(S.nodes, sourceId)
  THEN LET node == Get(S.nodes, sourceId)
       IN [S EXCEPT !.nodes = Put(S.nodes, sourceId,
                                  With(node, "children",
                                       SelectSeq(node.children, LAMBDA id : id # targetId)))]
  ELSE S

\* the computed edges, in rendering order
edges(map) ==
  LET Of(i) == LET node == map[i].v
                   kept == SelectSeq(node.children, LAMBDA c : Has(map, c))
               IN [j \in 1..Len(kept) |->
                     [id |-> node.id \o "-" \o kept[j], sourceId |-> node.id, targetId |-> kept[j]]]
      Cat[n \in 0..Len(map)] == IF n = 0 THEN <<>> ELSE Cat[n - 1] \o Of(n)
  IN Cat[Len(map)]

deleteSelectedEdge(S) ==
  IF S.selE = null THEN S
  ELSE LET es == edges(S.nodes)
           found == {i \in 1..Len(es) : es[i].id = S.selE}
       IN IF found = {} THEN S
          ELSE LET edge == es[SetMin(found)]
               IN [unlinkEdge(saveHistory(S), edge.sourceId, edge.targetId) EXCEPT !.selE = null]

-----------------------------------------------------------------------------
(* Selection *)

selectNode(S, id, multi) ==
  LET cur == IF multi THEN S.selN ELSE <<>>
      newSet == IF multi /\ id \in Range(cur) THEN SetDelete(cur, id) ELSE SetAdd(cur, id)
  IN [S EXCEPT !.selE = null, !.selN = newSet,
               !.selD = IF ~multi THEN <<>> ELSE @]

selectDrawing(S, id, multi) ==
  LET cur == IF multi THEN S.selD ELSE <<>>
      newSet == IF multi /\ id \in Range(cur) THEN SetDelete(cur, id) ELSE SetAdd(cur, id)
  IN [S EXCEPT !.selE = null, !.selD = newSet,
               !.selN = IF ~multi THEN <<>> ELSE @]

RECURSIVE Dedup(_)
Dedup(s) == IF s = <<>> THEN <<>> ELSE SetAdd(Dedup(SubSeq(s, 1, Len(s) - 1)), s[Len(s)])

selectAll(S) ==
  [S EXCEPT !.selN = [i \in 1..Len(S.nodes) |-> S.nodes[i].k],
            !.selD = Dedup([i \in 1..Len(S.drawings) |-> S.drawings[i].id]),
            !.selE = null]

selectEdge(S, id) == [S EXCEPT !.selN = <<>>, !.selD = <<>>, !.selE = id]

-----------------------------------------------------------------------------
(* Paths.  A path string is modelled by its commands: a command letter and *)
(* the numbers that follow it.  The paths fed to the model carry whole     *)
(* (x, y) pairs of integers, which rounding to two decimals leaves alone.  *)

shiftPath(path, dx, dy) ==
  [i \in 1..Len(path) |->
     [cmd |-> path[i].cmd,
      params |-> [j \in 1..Len(path[i].params) |->
                    path[i].params[j] + (IF (j - 1) % 2 = 0 THEN dx ELSE dy)]]]

getDrawingBounds(d) ==
  LET Cat[n \in 0..Len(d)] == IF n = 0 THEN <<>> ELSE Cat[n - 1] \o d[n].params
      numbers == Cat[Len(d)]
      xs == {numbers[i] : i \in {j \in 1..Len(numbers) : j % 2 = 1}}
      ys == {numbers[i] : i \in {j \in 1..Len(numbers) : j % 2 = 0}}
  IN IF xs = {} \/ ys = {} THEN [x |-> 0, y |-> 0, w |-> 0, h |-> 0]
     ELSE [x |-> SetMin(xs), y |-> SetMin(ys),
           w |-> SetMax(xs) - SetMin(xs), h |-> SetMax(ys) - SetMin(ys)]

-----------------------------------------------------------------------------
(* Node actions *)

updateNodePosition(S, id, x, y) ==
  LET current == IF Has(S.pos, id) THEN Get(S.pos, id) ELSE <<>>
  IN [S EXCEPT !.pos = Put(S.pos, id, With(With(current, "x", x), "y", y))]

moveSelectedDrawings(S, dx, dy) ==
  IF Len(S.selD) = 0 THEN S
  ELSE [S EXCEPT !.drawings =
          [i \in 1..Len(S.drawings) |->
             IF S.drawings[i].id \in Range(S.selD)
             THEN With(S.drawings[i], "path", shiftPath(S.drawings[i].path, dx, dy))
             ELSE S.drawings[i]]]

Abs(n) == IF n < 0 THEN -n ELSE n

updateNodeDimensions(S, id, width, height) ==
  IF Has(S.pos, id)
  THEN LET current == Get(S.pos, id)
       IN IF \/ Abs(NumOr(current, "width", 208) - width) > 1
             \/ Abs(NumOr(current, "height", 100) - height) > 1
          THEN [S EXCEPT !.pos = Put(S.pos, id,
                                     With(With(current, "width", width), "height", height))]
          ELSE S
  ELSE [S EXCEPT !.pos = Put(S.pos, id, [x |-> 0, y |-> 0, width |-> width, height |-> height])]

\* { ...node, ...updatedNode }
Merge(node, updatedNode) ==
  [f \in (DOMAIN node) \cup (DOMAIN updatedNode) |->
     IF f \in DOMAIN updatedNode THEN updatedNode[f] ELSE node[f]]

\* rename propagation inside updateNode
propagateRename(map, oldName, newName) ==
  [i \in 1..Len(map) |->
     IF HasField(map[i].v, "department") /\ map[i].v.department = oldName
     THEN [k |-> map[i].k, v |-> With(map[i].v, "department", newName)]
     ELSE map[i]]

RECURSIVE updateNodeEach(_, _, _)
updateNodeEach(map, ids, updatedNode) ==
  IF ids = <<>> THEN map
  ELSE LET id == Head(ids)
       IN IF ~Has(map, id) THEN updateNodeEach(map, Tail(ids), updatedNode)
          ELSE LET node == Get(map, id)
                   renames == /\ node.type = "group"
                              /\ HasField(updatedNode, "name")
                              /\ updatedNode.name # ""
                              /\ node.name # updatedNode.name
                   map1 == IF renames THEN propagateRename(map, node.name, updatedNode.name)
                           ELSE map
               IN updateNodeEach(Put(map1, id, Merge(node, updatedNode)), Tail(ids), updatedNode)

updateNode(S, updatedNode) ==
  IF Len(S.selN) = 0 THEN S
  ELSE [S EXCEPT !.nodes = updateNodeEach(S.nodes, S.selN, updatedNode)]

-----------------------------------------------------------------------------
(* Group membership *)

getOverlapArea(r1, r2) ==
  LET Max2(a, b) == IF a >= b THEN a ELSE b
      Min2(a, b) == IF a <= b THEN a ELSE b
      overlapLeft == Max2(r1.x, r2.x)
      overlapRight == Min2(r1.x + r1.w, r2.x + r2.w)
      overlapTop == Max2(r1.y, r2.y)
      overlapBottom == Min2(r1.y + r1.h, r2.y + r2.h)
  IN IF overlapLeft < overlapRight /\ overlapTop < overlapBottom
     THEN (overlapRight - overlapLeft) * (overlapBottom - overlapTop)
     ELSE 0

nodeRect(pos) == [x |-> pos.x, y |-> pos.y,
                  w |-> NumOr(pos, "width", 208), h |-> NumOr(pos, "height", 100)]
groupRect(pos) == [x |-> pos.x, y |-> pos.y,
                   w |-> NumOr(pos, "width", 300), h |-> NumOr(pos, "height", 300)]

updateGroupMembership_noOrphan(S, groupId) ==
  IF ~Has(S.nodes, groupId) \/ ~Has(S.pos, groupId) THEN S
  ELSE IF Get(S.nodes, groupId).type # "group" THEN S
  ELSE LET groupNode == Get(S.nodes, groupId)
           gRect == groupRect(Get(S.pos, groupId))
           One(e) ==
             LET node == e.v
             IN IF node.type \in functionalTypes /\ node.id # groupId /\ Has(S.pos, node.id)
                     /\ getOverlapArea(gRect, nodeRect(Get(S.pos, node.id))) > 0
                THEN [k |-> e.k, v |-> With(node, "department", groupNode.name)]
                ELSE e
       IN [S EXCEPT !.nodes = [i \in 1..Len(S.nodes) |-> One(S.nodes[i])]]

updateGroupMembership(S, groupId) ==
  IF ~Has(S.nodes, groupId) \/ ~Has(S.pos, groupId) THEN S
  ELSE IF Get(S.nodes, groupId).type # "group" THEN S
  ELSE LET groupNode == Get(S.nodes, groupId)
           gRect == groupRect(Get(S.pos, groupId))
           One(e) ==
             LET node == e.v
             IN IF node.type \in functionalTypes /\ node.id # groupId /\ Has(S.pos, node.id)
                THEN LET overlap == getOverlapArea(gRect, nodeRect(Get(S.pos, node.id)))
                         dept == IF HasField(node, "department") THEN <<node.department>> ELSE <<>>
                     IN IF overlap > 0
                        THEN IF dept # <<groupNode.name>>
                             THEN [k |-> e.k, v |-> With(node, "department", groupNode.name)]
                             ELSE e
                        ELSE IF dept = <<groupNode.name>>
                             THEN [k |-> e.k, v |-> With(node, "department", "")]
                             ELSE e
                ELSE e
       IN [S EXCEPT !.nodes = [i \in 1..Len(S.nodes) |-> One(S.nodes[i])]]

RECURSIVE bestGroup_lastTie(_, _, _, _, _, _)
bestGroup_lastTie(map, positions, nodeId, nRect, i, acc) ==
  IF i > Len(map) THEN acc.best
  ELSE LET gNode == map[i].v
           overlap == IF gNode.type = "group" /\ gNode.id # nodeId /\ Has(positions, gNode.id)
                      THEN getOverlapArea(nRect, groupRect(Get(positions, gNode.id)))
                      ELSE 0
       IN bestGroup_lastTie(map, positions, nodeId, nRect, i + 1,
                            IF overlap > 0 /\ overlap >= acc.maxOverlap
                            THEN [best |-> i, maxOverlap |-> overlap] ELSE acc)

\* the scan of updateNodeMembership: index of the best group, 0 when none
RECURSIVE bestGroup(_, _, _, _, _, _)
bestGroup(map, positions, nodeId, nRect, i, acc) ==
  IF i > Len(map) THEN acc.best
  ELSE LET gNode == map[i].v
           overlap == IF gNode.type = "group" /\ gNode.id # nodeId /\ Has(positions, gNode.id)
                      THEN getOverlapArea(nRect, groupRect(Get(positions, gNode.id)))
                      ELSE 0
       IN bestGroup(map, positions, nodeId, nRect, i + 1,
                    IF overlap > acc.maxOverlap
                    THEN [best |-> i, maxOverlap |-> overlap] ELSE acc)

updateNodeMembership(S, nodeId) ==
  IF ~Has(S.nodes, nodeId) \/ ~Has(S.pos, nodeId) THEN S
  ELSE IF Get(S.nodes, nodeId).type \notin functionalTypes THEN S
  ELSE LET best == bestGroup(S.nodes, S.pos, nodeId, nodeRect(Get(S.pos, nodeId)), 1,
                             [best |-> 0, maxOverlap |-> 0])
           currentNode == Get(S.nodes, nodeId)
           dept == IF HasField(currentNode, "department") THEN <<currentNode.department>> ELSE <<>>
       IN IF best # 0
          THEN IF dept # <<S.nodes[best].v.name>>
               THEN [S EXCEPT !.nodes = Put(S.nodes, nodeId,
                                            With(currentNode, "department", S.nodes[best].v.name))]
               ELSE S
          ELSE IF dept # <<>> /\ dept # <<"">>
               THEN [S EXCEPT !.nodes = Put(S.nodes, nodeId, With(currentNode, "department", ""))]
               ELSE S

-----------------------------------------------------------------------------
(* Deletion *)

RECURSIVE deleteNodesEach(_, _)
deleteNodesEach_keepEdges(map, ids) == SelectSeq(map, LAMBDA e : e.k \notin Range(ids))
deleteNodesEach(map, ids) ==
  IF ids = <<>> THEN map
  ELSE deleteNodesEach(Del(removeFromParent(map, Head(ids)), Head(ids)), Tail(ids))

deleteSelection(S) ==
  IF Len(S.selN) = 0 /\ Len(S.selD) = 0 THEN S
  ELSE LET S1 == saveHistory(S)
           nodeIds == S.selN
           drawingIds == S.selD
       IN [S1 EXCEPT
             !.nodes = IF Len(nodeIds) > 0 THEN deleteNodesEach(S1.nodes, nodeIds) ELSE @,
             !.pos = IF Len(nodeIds) > 0
                     THEN SelectSeq(S1.pos, LAMBDA e : e.k \notin Range(nodeIds)) ELSE @,
             !.drawings = IF Len(drawingIds) > 0
                          THEN SelectSeq(S1.drawings, LAMBDA d : d.id \notin Range(drawingIds))
                          ELSE @,
             !.selN = <<>>,
             !.selD = <<>>]

deleteDrawing(S, id) ==
  LET S1 == saveHistory(S)
  IN [S1 EXCEPT !.drawings = SelectSeq(S1.drawings, LAMBDA d : d.id # id),
                !.selD = SetDelete(S1.selD, id)]

-----------------------------------------------------------------------------
(* Clipboard *)

copySelection(S) ==
  IF Len(S.selN) = 0 /\ Len(S.selD) = 0 THEN S
  ELSE LET NodeItem(id) ==
             IF Has(S.nodes, id) /\ Has(S.pos, id)
             THEN LET pos == Get(S.pos, id)
                  IN <<[type |-> "node", data |-> JsonObject(Get(S.nodes, id)),
                        x |-> pos.x, y |-> pos.y,
                        width |-> NumOr(pos, "width", 208),
                        height |-> NumOr(pos, "height", 100)]>>
             ELSE <<>>
           DrawingItem(id) ==
             LET found == {i \in 1..Len(S.drawings) : S.drawings[i].id = id}
             IN IF found = {} THEN <<>>
                ELSE LET drawing == S.drawings[SetMin(found)]
                         bounds == getDrawingBounds(drawing.path)
                     IN <<[type |-> "drawing", data |-> JsonObject(drawing),
                           x |-> bounds.x, y |-> bounds.y,
                           width |-> bounds.w, height |-> bounds.h]>>
           CatN[n \in 0..Len(S.selN)] ==
             IF n = 0 THEN <<>> ELSE CatN[n - 1] \o NodeItem(S.selN[n])
           CatD[n \in 0..Len(S.selD)] ==
             IF n = 0 THEN <<>> ELSE CatD[n - 1] \o DrawingItem(S.selD[n])
       IN [S EXCEPT !.clip = CatN[Len(S.selN)] \o CatD[Len(S.selD)]]

RECURSIVE membershipOfPasted(_, _)
membershipOfPasted(S, items) ==
  IF items = <<>> THEN S
  ELSE membershipOfPasted(IF Head(items).node.type = "group"
                          THEN updateGroupMembership(S, Head(items).node.id) ELSE S,
                          Tail(items))

RECURSIVE PutAll(_, _)
PutAll(m, entries) ==
  IF entries = <<>> THEN m
  ELSE PutAll(Put(m, Head(entries).k, Head(entries).v), Tail(entries))

\* the end of pasteNodes: the new nodes, positions and drawings are stored
\* and selected, then the pasted groups take their members
storePasted(S1, newItems, newDrawings) ==
  membershipOfPasted(
    [S1 EXCEPT
       !.nodes = PutAll(@, [n \in 1..Len(newItems) |->
                              [k |-> newItems[n].node.id, v |-> newItems[n].node]]),
       !.pos = PutAll(@, [n \in 1..Len(newItems) |->
                            [k |-> newItems[n].node.id, v |-> newItems[n].pos]]),
       !.drawings = @ \o newDrawings,
       !.selN = [n \in 1..Len(newItems) |-> newItems[n].node.id],
       !.selD = [n \in 1..Len(newDrawings) |-> newDrawings[n].id],
       !.idCount = @ + Len(newItems) + Len(newDrawings)],
    newItems)

pasteNodes_keepOutside(S, targetX, targetY) ==
  IF Len(S.clip) = 0 THEN S
  ELSE LET S1 == saveHistory(S)
           clip == S1.clip
           minX == SetMin({clip[i].x : i \in 1..Len(clip)})
           minY == SetMin({clip[i].y : i \in 1..Len(clip)})
           \* first pass: one new id per clipboard item
           IdOf(i) == NewIds[S1.idCount + i]
           nodeIdx == SelectSeq([i \in 1..Len(clip) |-> i], LAMBDA i : clip[i].type = "node")
           drawIdx == SelectSeq([i \in 1..Len(clip) |-> i], LAMBDA i : clip[i].type = "drawing")
           mapped == {clip[i].data.id : i \in Range(nodeIdx)}
           idMap(old) == IdOf(SetMax({i \in Range(nodeIdx) : clip[i].data.id = old}))
           Pos(i) == [x |-> targetX + (clip[i].x - minX), y |-> targetY + (clip[i].y - minY),
                      width |-> clip[i].width, height |-> clip[i].height]
           \* second pass: children rewritten through idMap, the others dropped
           Children(i) ==
             LET kept == clip[i].data.children
             IN [j \in 1..Len(kept) |-> IF kept[j] \in mapped THEN idMap(kept[j]) ELSE kept[j]]
           newItems == [n \in 1..Len(nodeIdx) |->
                          LET i == nodeIdx[n]
                          IN [node |-> With(With(clip[i].data, "id", IdOf(i)),
                                            "children", Children(i)),
                              pos |-> Pos(i)]]
           newDrawings == [n \in 1..Len(drawIdx) |->
                             LET i == drawIdx[n]
                                 p == Pos(i)
                             IN With(With(clip[i].data, "id", IdOf(i)), "path",
                                     shiftPath(clip[i].data.path,
                                               p.x - clip[i].x, p.y - clip[i].y))]
       IN storePasted(S1, newItems, newDrawings)

pasteNodes_liveData(S, targetX, targetY) ==
  IF Len(S.clip) = 0 THEN S
  ELSE LET S1 == saveHistory(S)
           clip == S1.clip
           minX == SetMin({clip[i].x : i \in 1..Len(clip)})
           minY == SetMin({clip[i].y : i \in 1..Len(clip)})
           \* first pass: one new id per clipboard item
           Data(i) == IF Has(S.nodes, clip[i].data.id)
                      THEN Get(S.nodes, clip[i].data.id) ELSE clip[i].data
           IdOf(i) == NewIds[S1.idCount + i]
           nodeIdx == SelectSeq([i \in 1..Len(clip) |-> i], LAMBDA i : clip[i].type = "node")
           drawIdx == SelectSeq([i \in 1..Len(clip) |-> i], LAMBDA i : clip[i].type = "drawing")
           mapped == {clip[i].data.id : i \in Range(nodeIdx)}
           idMap(old) == IdOf(SetMax({i \in Range(nodeIdx) : clip[i].data.id = old}))
           Pos(i) == [x |-> targetX + (clip[i].x - minX), y |-> targetY + (clip[i].y - minY),
                      width |-> clip[i].width, height |-> clip[i].height]
           \* second pass: children rewritten through idMap, the others dropped
           Children(i) ==
             LET kept == SelectSeq(Data(i).children, LAMBDA c : c \in mapped)
             IN [j \in 1..Len(kept) |-> idMap(kept[j])]
           newItems == [n \in 1..Len(nodeIdx) |->
                          LET i == nodeIdx[n]
                          IN [node |-> With(With(Data(i), "id", IdOf(i)),
                                            "children", Children(i)),
                              pos |-> Pos(i)]]
           newDrawings == [n \in 1..Len(drawIdx) |->
                             LET i == drawIdx[n]
                                 p == Pos(i)
                             IN With(With(clip[i].data, "id", IdOf(i)), "path",
                                     shiftPath(clip[i].data.path,
                                               p.x - clip[i].x, p.y - clip[i].y))]
       IN storePasted(S1, newItems, newDrawings)

pasteNodes(S, targetX, targetY) ==
  IF Len(S.clip) = 0 THEN S
  ELSE LET S1 == saveHistory(S)
           clip == S1.clip
           minX == SetMin({clip[i].x : i \in 1..Len(clip)})
           minY == SetMin({clip[i].y : i \in 1..Len(clip)})
           \* first pass: one new id per clipboard item
           IdOf(i) == NewIds[S1.idCount + i]
           nodeIdx == SelectSeq([i \in 1..Len(clip) |-> i], LAMBDA i : clip[i].type = "node")
           drawIdx == SelectSeq([i \in 1..Len(clip) |-> i], LAMBDA i : clip[i].type = "drawing")
           mapped == {clip[i].data.id : i \in Range(nodeIdx)}
           idMap(old) == IdOf(SetMax({i \in Range(nodeIdx) : clip[i].data.id = old}))
           Pos(i) == [x |-> targetX + (clip[i].x - minX), y |-> targetY + (clip[i].y - minY),
                      width |-> clip[i].width, height |-> clip[i].height]
           \* second pass: children rewritten through idMap, the others dropped
           Children(i) ==
             LET kept == SelectSeq(clip[i].data.children, LAMBDA c : c \in mapped)
             IN [j \in 1..Len(kept) |-> idMap(kept[j])]
           newItems == [n \in 1..Len(nodeIdx) |->
                          LET i == nodeIdx[n]
                          IN [node |-> With(With(clip[i].data, "id", IdOf(i)),
                                            "children", Children(i)),
                              pos |-> Pos(i)]]
           newDrawings == [n \in 1..Len(drawIdx) |->
                             LET i == drawIdx[n]
                                 p == Pos(i)
                             IN With(With(clip[i].data, "id", IdOf(i)), "path",
                                     shiftPath(clip[i].data.path,
                                               p.x - clip[i].x, p.y - clip[i].y))]
       IN storePasted(S1, newItems, newDrawings)

-----------------------------------------------------------------------------
(* Import.  `data' is the parsed file: isArray tells which of its fields   *)
(* are arrays, entriesOk whether every element of nodes and positions is a *)
(* [key, value] pair (new Map throws a TypeError otherwise).               *)

importFromJson_saveFirst(S, data) ==
  LET S1 == saveHistory(S)
  IN IF ~data.isArray.nodes \/ ~data.isArray.positions THEN S1
     ELSE IF data.entriesOk
          THEN clearSelection([S1 EXCEPT !.nodes = data.nodes,
                                         !.pos = data.positions,
                                         !.drawings = IF data.isArray.drawings
                                                      THEN data.drawings ELSE <<>>])
          ELSE [undo(S1) EXCEPT !.redo = <<>>]

importFromJson_keepRedo(S, data) ==
  IF ~data.isArray.nodes \/ ~data.isArray.positions THEN S
  ELSE LET S1 == saveHistory(S)
       IN IF data.entriesOk
          THEN clearSelection([S1 EXCEPT !.nodes = data.nodes,
                                         !.pos = data.positions,
                                         !.drawings = IF data.isArray.drawings
                                                      THEN data.drawings ELSE <<>>])
          ELSE undo(S1)

importFromJson(S, data) ==
  IF ~data.isArray.nodes \/ ~data.isArray.positions THEN S   \* throw new Error(...)
  ELSE LET S1 == saveHistory(S)
       IN IF data.entriesOk
          THEN clearSelection([S1 EXCEPT !.nodes = data.nodes,
                                         !.pos = data.positions,
                                         !.drawings = IF data.isArray.drawings
                                                      THEN data.drawings ELSE <<>>])
          ELSE [undo(S1) EXCEPT !.redo = <<>>]

exportAsJson_noDrawings(S) ==
  [isArray |-> [nodes |-> TRUE, positions |-> TRUE, drawings |-> FALSE],
   entriesOk |-> TRUE,
   nodes |-> JsonEntries(S.nodes),
   positions |-> JsonEntries(S.pos)]

\* exportAsJson, then JSON.stringify and JSON.parse
exportAsJson(S) ==
  [isArray |-> [nodes |-> TRUE, positions |-> TRUE, drawings |-> TRUE],
   entriesOk |-> TRUE,
   nodes |-> JsonEntries(S.nodes),
   positions |-> JsonEntries(S.pos),
   drawings |-> JsonArray(S.drawings)]

-----------------------------------------------------------------------------
(* Dragging nodes (AppComponent).  The select tool is active, the button  *)
(* is the left one and the zoom level is 100, so that a movement of the   *)
(* pointer is the same movement on the canvas.                            *)

onNodeMouseDown_noSave(S, nodeId, isMultiSelect) ==
  IF nodeId \in Range(S.selN) THEN S
  ELSE selectNode(S, nodeId, isMultiSelect)

\* onNodeMouseDown: what it does to the service
onNodeMouseDown(S, nodeId, isMultiSelect) ==
  IF nodeId \in Range(S.selN) THEN saveHistory(S)
  ELSE selectNode(saveHistory(S), nodeId, isMultiSelect)

\* idsToMove of onCanvasMouseMove
idsToMove(S, id) == IF id \in Range(S.selN) THEN S.selN ELSE <<id>>

\* the forEach of onCanvasMouseMove: `positions' is read before the loop
RECURSIVE moveEach(_, _, _, _, _)
moveEach(S, positions, ids, dx, dy) ==
  IF ids = <<>> THEN S
  ELSE moveEach(IF Has(positions, Head(ids))
                THEN updateNodePosition(S, Head(ids), Get(positions, Head(ids)).x + dx,
                                        Get(positions, Head(ids)).y + dy)
                ELSE S,
                positions, Tail(ids), dx, dy)

\* onCanvasMouseUp while a node is being dragged: what it does to the service
onCanvasMouseUp(S, id) ==
  IF id = null \/ ~Has(S.nodes, id) THEN S
  ELSE IF Get(S.nodes, id).type = "group" THEN updateGroupMembership(S, id)
  ELSE updateNodeMembership(S, id)

-----------------------------------------------------------------------------
(* Creation *)

defaultName(type) ==
  CASE type = "note" -> "New Note"
    [] type = "shape" -> "New Shape"
    [] type = "group" -> "New Area"
    [] type = "text" -> "Type text..."
    [] OTHER -> "New Role"

addNode_saveLast(S, type, x, y, options, dimensions) ==
  LET id == newId(S)
      newNode == Merge([id |-> id, name |-> defaultName(type), type |-> type,
                        children |-> <<>>], options)
      S2 == [S EXCEPT !.nodes = Put(@, id, newNode),
                      !.pos = Put(@, id, [x |-> x, y |-> y, width |-> 208, height |-> 100]),
                      !.idCount = @ + 1]
  IN saveHistory(S2)

\* addNode; `dimensions' is <<>> when the caller passes none
addNode(S, type, x, y, options, dimensions) ==
  LET S1 == saveHistory(S)
      id == newId(S1)
      newNode == Merge([id |-> id, name |-> defaultName(type), type |-> type,
                        children |-> <<>>], options)
      width == IF DOMAIN dimensions = {}
               THEN CASE type = "note" -> 200 [] type = "shape" -> 150
                      [] type = "group" -> 300 [] type = "text" -> 150 [] OTHER -> 208
               ELSE NumOr(dimensions, "width", 208)
      height == IF DOMAIN dimensions = {}
                THEN CASE type = "note" -> 200 [] type = "shape" -> 150
                       [] type = "group" -> 300 [] type = "text" -> 50 [] OTHER -> 100
                ELSE NumOr(dimensions, "height", 100)
      S2 == [S1 EXCEPT !.nodes = Put(@, id, newNode),
                       !.pos = Put(@, id, [x |-> x, y |-> y, width |-> width, height |-> height]),
                       !.idCount = @ + 1]
  IN IF type = "group" THEN updateGroupMembership(S2, id) ELSE S2

\* the end of addMember: S2 is the state addNode left, id the new node's id
linkMember(S2, parentId, id) ==
  [(IF parentId # null /\ Has(S2.nodes, parentId)
    THEN [S2 EXCEPT !.nodes = Put(@, parentId,
                                  With(Get(S2.nodes, parentId), "children",
                                       Append(Get(S2.nodes, parentId).children, id)))]
    ELSE S2) EXCEPT !.selN = <<id>>]

addMember(S) ==
  LET S1 == saveHistory(S)
      currentIds == S1.selN
      positions == S1.pos
      parentId == IF Len(currentIds) > 0 THEN currentIds[Len(currentIds)] ELSE null
      siblingsCount == Len(ChildrenOf(S1.nodes, parentId))
      maxX == SetMax({0} \cup {positions[i].v.x : i \in 1..Len(positions)})
      newX == IF parentId # null
              THEN IF Has(positions, parentId)
                   THEN Get(positions, parentId).x + (siblingsCount * 240) ELSE 100
              ELSE IF Len(positions) > 0 THEN maxX + 250 ELSE 100
      newY == IF parentId # null /\ Has(positions, parentId)
              THEN Get(positions, parentId).y + 180 ELSE 100
  IN linkMember(addNode(S1, "employee", newX, newY, <<>>, <<>>), parentId, newId(S1))

-----------------------------------------------------------------------------
(* Drawing actions *)

addDrawing(S, drawing) ==
  LET S1 == saveHistory(S) IN [S1 EXCEPT !.drawings = Append(@, drawing)]

clearDrawings(S) ==
  LET S1 == saveHistory(S) IN [S1 EXCEPT !.drawings = <<>>]

-----------------------------------------------------------------------------
(* Inputs of the commands *)

SourceIds == {"1", "2-1", "g1"}
TargetIds == {"1", "2", "2-1", "ghost"}
SelectIds == {"2", "2-1", "g1"}
PosIds == {"2-1", "g1", "ghost"}
NodeTypes == {"employee", "group", "note"}
\* canvas points <<x, y>>, sizes <<width, height>> and offsets <<dx, dy>>
AddPoints == {<<1400, 0>>}
MovePoints == {<<5000, 5000>>, <<300, 600>>, <<300, 700>>}
NewDimensions == {<<300, 200>>, <<600, 500>>}
PastePoints == {<<0, 0>>}
Offsets == {<<10, 20>>}
DragIds == {"2-1", "2-2", "g2"}
\* movements <<dx, dy>> of the pointer
DragDeltas == {<<5000, 5000>>, <<-60, 0>>}
D1 == [id |-> "d1",
       path |-> <<[cmd |-> "M", params |-> <<10, 20>>], [cmd |-> "L", params |-> <<30, 40>>]>>,
       color |-> "#000000", strokeWidth |-> 3]
DrawingIds == {"d1", "dx"}
EdgeIds == {"1-2", "2-2-1"}
Updates == {[name |-> "Marketing"], [name |-> ""], [department |-> "Product"]}

SmallChart ==
  [isArray |-> [nodes |-> TRUE, positions |-> TRUE, drawings |-> TRUE],
   entriesOk |-> TRUE,
   nodes |-> <<[k |-> "a", v |-> [id |-> "a", name |-> "A", type |-> "manager",
                                  department |-> "", children |-> <<"b">>]],
               [k |-> "b", v |-> [id |-> "b", name |-> "B", type |-> "employee",
                                  department |-> "", children |-> <<>>]]>>,
   positions |-> <<[k |-> "a", v |-> [x |-> 0, y |-> 0, width |-> 208, height |-> 100]],
                   [k |-> "b", v |-> [x |-> 0, y |-> 400, width |-> 208, height |-> 100]]>>,
   drawings |-> <<D1>>]
\* a file with array-shaped fields whose positions miss a node
NoPositions == [SmallChart EXCEPT !.positions = <<>>, !.isArray.drawings = FALSE]
\* a file whose nodes field is not an array
NotArrays == [SmallChart EXCEPT !.isArray.nodes = FALSE]
\* a file whose nodes array holds something else than [key, value] pairs
BadEntries == [SmallChart EXCEPT !.entriesOk = FALSE]
\* a file without a positions field
NoPositionsField == [SmallChart EXCEPT !.isArray.positions = FALSE, !.positions = <<>>]
ImportData == {SmallChart, NoPositions, NotArrays, NoPositionsField, BadEntries}

-----------------------------------------------------------------------------
(* The state machine: one action per command.  `steps' is the number of    *)
(* commands still to be issued.                                            *)

Store(S, cmd, args) ==
  /\ nodes' = S.nodes
  /\ nodePositions' = S.pos
  /\ drawings' = S.drawings
  /\ selectedNodeIds' = S.selN
  /\ selectedDrawingIds' = S.selD
  /\ selectedEdgeId' = S.selE
  /\ undoStack' = S.undo
  /\ redoStack' = S.redo
  /\ clipboard' = S.clip
  /\ idCount' = S.idCount
  /\ steps' = steps - 1
  /\ last' = [cmd |-> cmd, args |-> args, prev |-> last.cmd,
              before |-> <<nodes, nodePositions, drawings>>, saves |-> S.saves,
              down |-> IF cmd = "onNodeMouseDown" THEN <<nodes, nodePositions, drawings>>
                       ELSE last.down]

\* a command of the service: the fields of the component stay as they are
Commit(S, cmd, args) ==
  /\ Store(S, cmd, args)
  /\ UNCHANGED <<isDraggingNode, dragNodeId>>

\* the fields as their initializers leave them
Fields ==
  [nodes |-> <<>>, pos |-> <<>>, drawings |-> <<>>,
   selN |-> <<>>, selD |-> <<>>, selE |-> null,
   undo |-> <<>>, redo |-> <<>>, clip |-> <<>>, idCount |-> 0, saves |-> 0]

Constructed(S) ==
  /\ nodes = S.nodes
  /\ nodePositions = S.pos
  /\ drawings = S.drawings
  /\ selectedNodeIds = S.selN
  /\ selectedDrawingIds = S.selD
  /\ selectedEdgeId = S.selE
  /\ undoStack = S.undo
  /\ redoStack = S.redo
  /\ clipboard = S.clip
  /\ idCount = S.idCount
  /\ isDraggingNode = FALSE
  /\ dragNodeId = null
  /\ last = [cmd |-> "constructor", args |-> <<>>, prev |-> "none",
             before |-> <<S.nodes, S.pos, S.drawings>>, saves |-> 0,
             down |-> <<S.nodes, S.pos, S.drawings>>]

Base == Constructed(loadFunctionalChart(Fields, FALSE))

LinkNodes ==
  /\ steps > 0
  /\ \E sourceId \in SourceIds \cup (KeySet(nodes) \cap {NewIds[1]}),
        targetId \in TargetIds \cup (KeySet(nodes) \cap {NewIds[1]}) :
       Commit(linkNodes(Cur, sourceId, targetId), "linkNodes", <<sourceId, targetId>>)

UnlinkEdge ==
  /\ steps > 0
  /\ \E sourceId \in SourceIds, targetId \in TargetIds :
       Commit(unlinkEdge(Cur, sourceId, targetId), "unlinkEdge", <<>>)

SelectEdge ==
  /\ steps > 0
  /\ \E id \in EdgeIds : Commit(selectEdge(Cur, id), "selectEdge", <<>>)

DeleteSelectedEdge ==
  /\ steps > 0
  /\ Commit(deleteSelectedEdge(Cur), "deleteSelectedEdge", <<>>)

SelectNode ==
  /\ steps > 0
  /\ \E id \in SelectIds, multi \in BOOLEAN :
       Commit(selectNode(Cur, id, multi), "selectNode", <<>>)

SelectDrawing ==
  /\ steps > 0
  /\ \E id \in DrawingIds, multi \in BOOLEAN :
       Commit(selectDrawing(Cur, id, multi), "selectDrawing", <<>>)

SelectAll ==
  /\ steps > 0
  /\ Commit(selectAll(Cur), "selectAll", <<>>)

ClearSelection ==
  /\ steps > 0
  /\ Commit(clearSelection(Cur), "clearSelection", <<>>)

AddNode ==
  /\ steps > 0
  /\ idCount < MaxNewIds
  /\ \E type \in NodeTypes, p \in AddPoints :
       Commit(addNode(Cur, type, p[1], p[2], <<>>, <<>>), "addNode", <<>>)

AddMember ==
  /\ steps > 0
  /\ idCount < MaxNewIds
  /\ Commit(addMember(Cur), "addMember", <<>>)

DeleteSelection ==
  /\ steps > 0
  /\ Commit(deleteSelection(Cur), "deleteSelection", <<>>)

DeleteDrawing ==
  /\ steps > 0
  /\ \E id \in DrawingIds : Commit(deleteDrawing(Cur, id), "deleteDrawing", <<>>)

AddDrawing ==
  /\ steps > 0
  /\ Commit(addDrawing(Cur, D1), "addDrawing", <<>>)

ClearDrawings ==
  /\ steps > 0
  /\ Commit(clearDrawings(Cur), "clearDrawings", <<>>)

CopySelection ==
  /\ steps > 0
  /\ Commit(copySelection(Cur), "copySelection", <<>>)

PasteNodes ==
  /\ steps > 0
  /\ idCount + Len(clipboard) <= MaxNewIds
  /\ \E p \in PastePoints : Commit(pasteNodes(Cur, p[1], p[2]), "pasteNodes", <<>>)

Undo ==
  /\ steps > 0
  /\ Commit(undo(Cur), "undo", <<>>)

Redo ==
  /\ steps > 0
  /\ Commit(redo(Cur), "redo", <<>>)

UpdateNode ==
  /\ steps > 0
  /\ \E updatedNode \in Updates : Commit(updateNode(Cur, updatedNode), "updateNode", <<updatedNode>>)

UpdateNodePosition ==
  /\ steps > 0
  /\ \E id \in PosIds, p \in MovePoints :
       Commit(updateNodePosition(Cur, id, p[1], p[2]), "updateNodePosition", <<>>)

UpdateNodeDimensions ==
  /\ steps > 0
  /\ \E id \in PosIds, d \in NewDimensions :
       Commit(updateNodeDimensions(Cur, id, d[1], d[2]), "updateNodeDimensions", <<>>)

MoveSelectedDrawings ==
  /\ steps > 0
  /\ \E o \in Offsets : Commit(moveSelectedDrawings(Cur, o[1], o[2]), "moveSelectedDrawings", <<>>)

UpdateGroupMembership ==
  /\ steps > 0
  /\ \E id \in PosIds : Commit(updateGroupMembership(Cur, id), "updateGroupMembership", <<id>>)

UpdateNodeMembership ==
  /\ steps > 0
  /\ \E id \in PosIds : Commit(updateNodeMembership(Cur, id), "updateNodeMembership", <<id>>)

AutoLayout ==
  /\ steps > 0
  /\ Commit(autoLayout(Cur, TRUE), "autoLayout", <<>>)

LoadFunctionalChart ==
  /\ steps > 0
  /\ Commit(loadFunctionalChart(Cur, TRUE), "loadFunctionalChart", <<>>)

LoadWhiteboard ==
  /\ steps > 0
  /\ Commit(loadWhiteboard(Cur, TRUE), "loadWhiteboard", <<>>)

ImportFromJson ==
  /\ steps > 0
  /\ \E data \in ImportData : Commit(importFromJson(Cur, data), "importFromJson", <<data>>)

\* importFromJson of a file that passes the validation and fails in new Map(...)
ImportFromJsonFailing ==
  /\ steps > 0
  /\ \E data \in {d \in ImportData : d.isArray.nodes /\ d.isArray.positions /\ ~d.entriesOk} :
       Commit(importFromJson(Cur, data), "importFromJson", <<data>>)

\* exportAsJson, then onJsonFileSelected on the file it downloaded
ExportImport ==
  /\ steps > 0
  /\ Commit(importFromJson(Cur, exportAsJson(Cur)), "exportImport", <<>>)

\* every command of the service
\* the pointer goes down on a node when it is up
OnNodeMouseDown ==
  /\ steps > 0
  /\ ~isDraggingNode
  /\ \E nodeId \in DragIds, isMultiSelect \in BOOLEAN :
       /\ Store(onNodeMouseDown(Cur, nodeId, isMultiSelect), "onNodeMouseDown", <<nodeId>>)
       /\ isDraggingNode' = TRUE
       /\ dragNodeId' = nodeId

\* the branch of onCanvasMouseMove that drags nodes; last.args[1] are the ids moved
OnCanvasMouseMove ==
  /\ steps > 0
  /\ isDraggingNode /\ dragNodeId # null
  /\ \E d \in DragDeltas :
       Store(moveEach(Cur, nodePositions, idsToMove(Cur, dragNodeId), d[1], d[2]),
             "onCanvasMouseMove", <<idsToMove(Cur, dragNodeId)>>)
  /\ UNCHANGED <<isDraggingNode, dragNodeId>>

\* the branch of onCanvasMouseUp that ends the drag of a node
OnCanvasMouseUp ==
  /\ steps > 0
  /\ isDraggingNode
  /\ Store(onCanvasMouseUp(Cur, dragNodeId), "onCanvasMouseUp", <<dragNodeId>>)
  /\ isDraggingNode' = FALSE
  /\ dragNodeId' = null

Init == Base /\ steps = MaxSteps
Next ==
  \/ LinkNodes \/ UnlinkEdge \/ SelectEdge \/ DeleteSelectedEdge
  \/ SelectNode \/ SelectDrawing \/ SelectAll \/ ClearSelection
  \/ AddNode \/ AddMember \/ DeleteSelection \/ DeleteDrawing
  \/ AddDrawing \/ ClearDrawings \/ CopySelection \/ PasteNodes
  \/ Undo \/ Redo
  \/ UpdateNode \/ UpdateNodePosition \/ UpdateNodeDimensions \/ MoveSelectedDrawings
  \/ UpdateGroupMembership \/ UpdateNodeMembership
  \/ AutoLayout \/ LoadFunctionalChart \/ LoadWhiteboard \/ ImportFromJson
  \/ ExportImport
Spec == Init /\ [][Next]_vars

\* commands on the topology, the selection, the clipboard and the history
InitTopo == Base /\ steps = MaxTopoSteps
NextTopo ==
  \/ SelectNode \/ LinkNodes \/ UnlinkEdge \/ AddMember \/ DeleteSelection
  \/ CopySelection \/ PasteNodes \/ Undo \/ Redo
SpecTopo == InitTopo /\ [][NextTopo]_vars

\* the commands that record history, with the selections they need, undo and redo
InitRecord == Base /\ steps = MaxRecordSteps
NextRecord ==
  \/ SelectNode \/ SelectEdge \/ CopySelection
  \/ LinkNodes \/ DeleteSelectedEdge \/ AddNode \/ AddMember \/ DeleteSelection
  \/ DeleteDrawing \/ AddDrawing \/ ClearDrawings \/ PasteNodes
  \/ AutoLayout \/ LoadFunctionalChart \/ LoadWhiteboard \/ ImportFromJson
  \/ Undo \/ Redo
SpecRecord == InitRecord /\ [][NextRecord]_vars

\* a recorded command, a command that records nothing, undo and redo
InitUndoRedo == Base /\ steps = MaxUndoRedoSteps
NextUndoRedo == AddDrawing \/ UpdateNodePosition \/ Undo \/ Redo
SpecUndoRedo == InitUndoRedo /\ [][NextUndoRedo]_vars

\* selecting, copying and pasting nodes
InitPaste == Base /\ steps = MaxPasteSteps
NextPaste == SelectNode \/ CopySelection \/ PasteNodes
SpecPaste == InitPaste /\ [][NextPaste]_vars

\* moving and resizing nodes and groups, and the two membership entry points
InitMember == Base /\ steps = MaxMemberSteps
NextMember ==
  \/ UpdateNodePosition \/ UpdateNodeDimensions
  \/ UpdateGroupMembership \/ UpdateNodeMembership
SpecMember == InitMember /\ [][NextMember]_vars

\* selecting nodes and dragging them with the pointer
InitDrag == Base /\ steps = MaxDragSteps
NextDrag == SelectNode \/ OnNodeMouseDown \/ OnCanvasMouseMove \/ OnCanvasMouseUp
SpecDrag == InitDrag /\ [][NextDrag]_vars

\* selecting nodes and editing their properties
InitRename == Base /\ steps = MaxRenameSteps
NextRename == SelectNode \/ UpdateNode
SpecRename == InitRename /\ [][NextRename]_vars

\* changes of the tree, of the geometries and of the freeform nodes, and autoLayout
InitLayout == Base /\ steps = MaxLayoutSteps
NextLayout ==
  \/ AddNode \/ LinkNodes \/ UpdateNodePosition \/ UpdateNodeDimensions
  \/ AutoLayout
SpecLayout == InitLayout /\ [][NextLayout]_vars

\* copying, then editing, renaming, moving or deleting the originals, then pasting
InitClipboard == Base /\ steps = MaxClipboardSteps
NextClipboard ==
  \/ SelectNode \/ AddDrawing \/ SelectDrawing \/ CopySelection
  \/ UpdateNode \/ UpdateNodePosition \/ MoveSelectedDrawings \/ DeleteSelection
  \/ PasteNodes
SpecClipboard == InitClipboard /\ [][NextClipboard]_vars

\* dragging nodes with the pointer, and undo while the pointer is up
InitDragUndo == Base /\ steps = MaxDragUndoSteps
NextDragUndo ==
  \/ SelectNode \/ OnNodeMouseDown \/ OnCanvasMouseMove \/ OnCanvasMouseUp
  \/ (~isDraggingNode /\ Undo)
SpecDragUndo == InitDragUndo /\ [][NextDragUndo]_vars

\* long runs of one recorded command, undo and redo
InitHistory == Base /\ steps = MaxHistorySteps
NextHistory == AddDrawing \/ Undo \/ Redo
SpecHistory == InitHistory /\ [][NextHistory]_vars

\* long runs of one recorded command, and imports that roll back
InitImport == Base /\ steps = MaxImportSteps
NextImport == AddDrawing \/ ImportFromJsonFailing
SpecImport == InitImport /\ [][NextImport]_vars

-----------------------------------------------------------------------------
(* Properties *)

\* the children relation as a set of pairs, and its transitive closure
ChildPairs(map) ==
  UNION {{<<map[i].k, c>> : c \in Range(map[i].v.children)} : i \in 1..Len(map)}
\* the ids reached from `frontier' along pairs of E, `seen' being reached already
RECURSIVE ReachFrom(_, _, _)
ReachFrom(E, frontier, seen) ==
  IF frontier \subseteq seen THEN seen
  ELSE ReachFrom(E, {e[2] : e \in {d \in E : d[1] \in frontier \ seen}}, seen \cup frontier)
Descendants(map, id) ==
  ReachFrom(ChildPairs(map), {e[2] : e \in {d \in ChildPairs(map) : d[1] = id}}, {})
Reaches(map, from, to) == to \in Descendants(map, from)

MutatingCommands ==
  {"addNode", "addMember", "updateNode", "updateNodePosition", "updateNodeDimensions",
   "linkNodes", "unlinkEdge", "deleteSelection", "deleteDrawing", "addDrawing",
   "clearDrawings", "pasteNodes", "autoLayout", "loadFunctionalChart", "loadWhiteboard",
   "importFromJson"}

\* C1: the children relation never holds a path from a node back to itself
C1_Acyclic == \A i \in 1..Len(nodes) : nodes[i].k \notin Descendants(nodes, nodes[i].k)
\* a link that went through: the target is now a child of the source
C1_Witness ==
  /\ last.cmd = "linkNodes"
  /\ last.saves = 1
  /\ last.args[2] \in Range(ChildrenOf(nodes, last.args[1]))

\* C2: every id is listed as a child at most once, by at most one node
C2_SingleParent ==
  \A id \in UNION {Range(nodes[i].v.children) : i \in 1..Len(nodes)} :
    Cardinality(UNION {{<<i, j>> : j \in {n \in 1..Len(nodes[i].v.children) :
                                              nodes[i].v.children[n] = id}} :
                       i \in 1..Len(nodes)}) = 1
\* a link that moved the target away from another parent
C2_Witness ==
  /\ last.cmd = "linkNodes"
  /\ last.args[2] \in Range(ChildrenOf(nodes, last.args[1]))
  /\ \E i \in 1..Len(last.before[1]) :
       /\ last.before[1][i].k # last.args[1]
       /\ last.args[2] \in Range(last.before[1][i].v.children)

\* C3: the node map and the geometry map have the same keys
C3_KeysetParity == KeySet(nodes) = KeySet(nodePositions)

\* C4: every child id is the id of a node in the store
C4_NoDanglingChild ==
  \A i \in 1..Len(nodes) : Range(nodes[i].v.children) \subseteq KeySet(nodes)

\* C5: undo right after a mutating command that changed the store gives back
\* the nodes, geometries and drawings the command started from
C5_UndoRestoresPreCommand ==
  [][(/\ last'.cmd = "undo"
      /\ last.cmd \in MutatingCommands
      /\ last.before # <<nodes, nodePositions, drawings>>)
     => <<nodes', nodePositions', drawings'>> = last.before]_vars

\* C6: a mutating command that changed the store, then undo, then redo gives
\* back the nodes, geometries and drawings the command left
C6_RedoRestoresPostCommand ==
  [][(/\ last'.cmd = "redo"
      /\ last.cmd = "undo"
      /\ last.prev \in MutatingCommands)
     => <<nodes', nodePositions', drawings'>> = last.before]_vars

\* C7: the undo stack never holds more than maxHistorySize snapshots, and a
\* push on a full stack drops the oldest snapshot
C7_HistoryBound ==
  /\ [](Len(undoStack) <= maxHistorySize)
  /\ [][(last'.saves = 1 /\ Len(undoStack) = maxHistorySize)
        => undoStack' = Tail(undoStack)
                        \o <<[nodes |-> nodes, positions |-> nodePositions,
                              drawings |-> drawings]>>]_vars
\* the stack is full and the snapshot of the initial state has been dropped
C7_Witness ==
  /\ Len(undoStack) = maxHistorySize
  /\ undoStack[1].drawings # <<>>
  /\ last.saves = 1

\* C8: after a command that called saveHistory the redo stack is empty, and
\* a redo right after it changes nothing
C8_RedoClearedOnRecord ==
  /\ [](last.saves > 0 => redoStack = <<>>)
  /\ [][(last.saves > 0 /\ last'.cmd = "redo")
        => UNCHANGED <<nodes, nodePositions, drawings, undoStack, redoStack>>]_vars
\* a command recorded history while the redo stack was not empty
C8_Witness ==
  /\ last.saves > 0
  /\ last.prev = "undo"
  /\ redoStack = <<>>
  /\ Len(undoStack) > 0

\* C9: linkNodes(sourceId, targetId) with sourceId reachable from targetId
\* changes neither the store nor the history stacks
C9_CycleLinkRejected ==
  [][(/\ last'.cmd = "linkNodes"
      /\ Reaches(nodes, last'.args[2], last'.args[1]))
     => UNCHANGED <<nodes, nodePositions, drawings, undoStack, redoStack>>]_vars
\* such a call was made on a state with history
C9_Witness ==
  /\ last.cmd = "linkNodes"
  /\ last.args[1] # last.args[2]
  /\ Reaches(nodes, last.args[2], last.args[1])
  /\ Len(undoStack) > 0

\* C10: deleteSelection on an empty selection, pasteNodes on an empty
\* clipboard and linkNodes(x, x) change neither the store nor the stacks
C10_SoftNoOps ==
  [][(\/ (last'.cmd = "deleteSelection" /\ selectedNodeIds = <<>> /\ selectedDrawingIds = <<>>)
      \/ (last'.cmd = "pasteNodes" /\ clipboard = <<>>)
      \/ (last'.cmd = "linkNodes" /\ last'.args[1] = last'.args[2]))
     => UNCHANGED <<nodes, nodePositions, drawings, undoStack, redoStack>>]_vars
\* linkNodes(x, x) was called on a node of the store
C10_Witness ==
  /\ last.cmd = "linkNodes"
  /\ last.args[1] = last.args[2]
  /\ Has(nodes, last.args[1])
  /\ last.saves = 0

\* C11: linkNodes between two distinct nodes of the store that are not linked
\* yet and would close no cycle takes the target out of every other children
\* list and appends it to the source's children, and keeps every other list;
\* linkNodes on an edge that exists changes neither the store nor the stacks
C11_LinkMovesTarget ==
  [][(/\ last'.cmd = "linkNodes"
      /\ last'.args[1] # last'.args[2]
      /\ Has(nodes, last'.args[1]))
     => IF last'.args[2] \in Range(ChildrenOf(nodes, last'.args[1]))
        THEN UNCHANGED <<nodes, nodePositions, drawings, undoStack, redoStack>>
        ELSE (Has(nodes, last'.args[2]) /\ ~Reaches(nodes, last'.args[2], last'.args[1]))
             => /\ KeySet(nodes') = KeySet(nodes)
                /\ \A id \in KeySet(nodes) :
                     ChildrenOf(nodes', id) =
                       SelectSeq(ChildrenOf(nodes, id), LAMBDA c : c # last'.args[2])
                       \o (IF id = last'.args[1] THEN <<last'.args[2]>> ELSE <<>>)]_vars
\* a link moved the target from its parent to the end of a list that was not empty
C11_Witness ==
  /\ last.cmd = "linkNodes"
  /\ last.saves = 1
  /\ Has(last.before[1], last.args[1])
  /\ Has(last.before[1], last.args[2])
  /\ Len(ChildrenOf(last.before[1], last.args[1])) > 0
  /\ \E i \in 1..Len(last.before[1]) : last.args[2] \in Range(last.before[1][i].v.children)
  /\ ChildrenOf(nodes, last.args[1]) =
       Append(ChildrenOf(last.before[1], last.args[1]), last.args[2])

\* C12: after deleteSelection with nodes selected, no selected id is a key of
\* nodes or of nodePositions or an element of a children list, and the
\* children of the deleted nodes that were not selected are still in the store
C12_DeleteStripsEdges ==
  [][(last'.cmd = "deleteSelection" /\ selectedNodeIds # <<>>)
     => /\ Range(selectedNodeIds) \cap KeySet(nodes') = {}
        /\ Range(selectedNodeIds) \cap KeySet(nodePositions') = {}
        /\ \A i \in 1..Len(nodes') :
             Range(nodes'[i].v.children) \cap Range(selectedNodeIds) = {}
        /\ \A id \in Range(selectedNodeIds) :
             (Range(ChildrenOf(nodes, id)) \cap KeySet(nodes)) \ Range(selectedNodeIds)
               \subseteq KeySet(nodes')]_vars
\* a node that had a parent and children was deleted
C12_Witness ==
  /\ last.cmd = "deleteSelection"
  /\ \E id \in KeySet(last.before[1]) \ KeySet(nodes) :
       /\ Len(ChildrenOf(last.before[1], id)) > 0
       /\ Range(ChildrenOf(last.before[1], id)) \subseteq KeySet(nodes)
       /\ \E i \in 1..Len(last.before[1]) : id \in Range(last.before[1][i].v.children)

\* C13: importFromJson of a file whose nodes or positions field is not an
\* array changes neither the store nor the selection nor the history stacks
C13_ImportRejected ==
  [][(/\ last'.cmd = "importFromJson"
      /\ (~last'.args[1].isArray.nodes \/ ~last'.args[1].isArray.positions))
     => UNCHANGED <<nodes, nodePositions, drawings, selectedNodeIds, selectedDrawingIds,
                    selectedEdgeId, undoStack, redoStack>>]_vars
\* such a file was imported while something was selected and history was recorded
C13_Witness ==
  /\ last.cmd = "importFromJson"
  /\ (~last.args[1].isArray.nodes \/ ~last.args[1].isArray.positions)
  /\ selectedNodeIds # <<>>
  /\ undoStack # <<>>

\* C14: importFromJson of a file that passes the validation and fails while it
\* is applied leaves nodes, nodePositions and drawings as they were and the
\* redo stack empty, so that a redo after it changes nothing
C14_ImportRolledBack ==
  /\ [][(/\ last'.cmd = "importFromJson"
         /\ last'.args[1].isArray.nodes /\ last'.args[1].isArray.positions
         /\ ~last'.args[1].entriesOk)
        => /\ UNCHANGED <<nodes, nodePositions, drawings>>
           /\ redoStack' = <<>>]_vars
  /\ [][(/\ last.cmd = "importFromJson"
         /\ last.args[1].isArray.nodes /\ last.args[1].isArray.positions
         /\ ~last.args[1].entriesOk
         /\ last'.cmd = "redo")
        => UNCHANGED <<nodes, nodePositions, drawings, undoStack, redoStack>>]_vars
\* such an import failed on a store with a drawing and recorded history
C14_Witness ==
  /\ last.cmd = "importFromJson"
  /\ last.args[1].isArray.nodes /\ last.args[1].isArray.positions
  /\ ~last.args[1].entriesOk
  /\ drawings # <<>>
  /\ undoStack # <<>>
  /\ redoStack = <<>>

\* the department of every node
Departments(map) == [i \in 1..Len(map) |-> <<map[i].k, DeptOf(map, map[i].k)>>]

ClipNodeItems == {i \in 1..Len(clipboard) : clipboard[i].type = "node"}
ClipNodeIds == {clipboard[i].data.id : i \in ClipNodeItems}

Overlaps(map, positions, a, b) ==
  /\ Has(positions, a) /\ Has(positions, b)
  /\ getOverlapArea(nodeRect(Get(positions, a)), groupRect(Get(positions, b))) > 0

\* C17: after pasteNodes every pasted functional node has an empty department
\* or the name of a group node that overlaps it, and every functional node
\* that overlaps a pasted group has that group's name as department
C17_PasteDepartments ==
  [][last'.cmd = "pasteNodes"
     => LET new == KeySet(nodes') \ KeySet(nodes)
            groups == {g \in KeySet(nodes') : Get(nodes', g).type = "group"}
            functional == {n \in KeySet(nodes') : Get(nodes', n).type \in functionalTypes}
        IN /\ \A n \in new \cap functional :
                \/ DeptOf(nodes', n) = ""
                \/ \E g \in groups : /\ Get(nodes', g).name = DeptOf(nodes', n)
                                     /\ Overlaps(nodes', nodePositions', n, g)
           /\ \A g \in new \cap groups : \A n \in functional :
                Overlaps(nodes', nodePositions', n, g)
                  => DeptOf(nodes', n) = Get(nodes', g).name]_vars

\* a pasted functional node whose department names a group that does not
\* overlap it
C17_StaleDepartment ==
  /\ last.cmd = "pasteNodes"
  /\ \E n \in KeySet(nodes) \ KeySet(last.before[1]) :
       /\ Get(nodes, n).type \in functionalTypes
       /\ DeptOf(nodes, n) # ""
       /\ \A g \in KeySet(nodes) :
            (Get(nodes, g).type = "group" /\ Get(nodes, g).name = DeptOf(nodes, n))
              => ~Overlaps(nodes, nodePositions, n, g)


\* the intersection area of node n's rectangle with the rectangle of the
\* group at index i of the node map, 0 when i is no group with a geometry
AreaWith(map, positions, n, i) ==
  IF map[i].v.type = "group" /\ map[i].k # n /\ Has(positions, map[i].k)
  THEN getOverlapArea(nodeRect(Get(positions, n)), groupRect(Get(positions, map[i].k)))
  ELSE 0
\* the indexes of the groups no other group overlaps node n more than
MostOverlapping(map, positions, n) ==
  {i \in 1..Len(map) :
     /\ AreaWith(map, positions, n, i) > 0
     /\ \A j \in 1..Len(map) : AreaWith(map, positions, n, j) <= AreaWith(map, positions, n, i)}
\* maps a and b hold the same nodes in the same order, but for the
\* department of the nodes in ids
SameButDepartment(a, b, ids) ==
  /\ Len(a) = Len(b)
  /\ \A i \in 1..Len(a) :
       /\ a[i].k = b[i].k
       /\ IF a[i].k \in ids
          THEN \A f \in ((DOMAIN a[i].v) \cup (DOMAIN b[i].v)) \ {"department"} :
                 f \in DOMAIN a[i].v /\ f \in DOMAIN b[i].v /\ a[i].v[f] = b[i].v[f]
          ELSE a[i] = b[i]

\* C18: updateNodeMembership on a functional node with a geometry gives it the
\* name of the first group, in the order of the node map, among the groups
\* that overlap it the most, gives it the empty department when no group
\* overlaps it, and changes nothing else of the chart
C18_NodeMembership ==
  [][(/\ last'.cmd = "updateNodeMembership"
      /\ Has(nodes, last'.args[1]) /\ Has(nodePositions, last'.args[1])
      /\ Get(nodes, last'.args[1]).type \in functionalTypes)
     => LET n == last'.args[1]
            most == MostOverlapping(nodes, nodePositions, n)
        IN /\ SameButDepartment(nodes, nodes', {n})
           /\ nodePositions' = nodePositions
           /\ IF most = {} THEN DeptOf(nodes', n) = ""
              ELSE \E i \in most : /\ \A j \in most : i <= j
                                   /\ DeptOf(nodes', n) = nodes[i].v.name]_vars

\* updateNodeMembership has run on a node that two groups of different names
\* overlap the most, by the same area
C18_Witness ==
  /\ last.cmd = "updateNodeMembership"
  /\ Has(nodes, last.args[1]) /\ Has(nodePositions, last.args[1])
  /\ Get(nodes, last.args[1]).type \in functionalTypes
  /\ \E i, j \in MostOverlapping(nodes, nodePositions, last.args[1]) :
       i < j /\ nodes[i].v.name # nodes[j].v.name /\ DeptOf(nodes, last.args[1]) = nodes[i].v.name
  /\ DeptOf(last.before[1], last.args[1]) # DeptOf(nodes, last.args[1])


\* C19: updateGroupMembership on a group with a geometry gives the group's
\* name to every functional node whose rectangle overlaps the group's, gives
\* the empty department to every functional node that had the group's name
\* and does not overlap it, and changes nothing else of the chart
C19_GroupMembership ==
  [][(/\ last'.cmd = "updateGroupMembership"
      /\ Has(nodes, last'.args[1]) /\ Has(nodePositions, last'.args[1])
      /\ Get(nodes, last'.args[1]).type = "group")
     => LET g == last'.args[1]
            name == Get(nodes, g).name
            functional == {n \in KeySet(nodes) :
                             Get(nodes, n).type \in functionalTypes /\ Has(nodePositions, n)}
            inside == {n \in functional : Overlaps(nodes, nodePositions, n, g)}
            orphans == {n \in functional \ inside : DeptOf(nodes, n) = name}
        IN /\ SameButDepartment(nodes, nodes', inside \cup orphans)
           /\ nodePositions' = nodePositions
           /\ \A n \in inside : DeptOf(nodes', n) = name
           /\ \A n \in orphans : DeptOf(nodes', n) = ""]_vars

\* updateGroupMembership has run on a group that was moved away from a node
\* of its department and onto a node of another department
C19_Witness ==
  /\ last.cmd = "updateGroupMembership"
  /\ Has(nodes, last.args[1]) /\ Has(nodePositions, last.args[1])
  /\ Get(nodes, last.args[1]).type = "group"
  /\ \E n, m \in KeySet(nodes) :
       /\ Get(nodes, n).type \in functionalTypes /\ Get(nodes, m).type \in functionalTypes
       /\ Overlaps(nodes, nodePositions, n, last.args[1])
       /\ DeptOf(last.before[1], n) # Get(nodes, last.args[1]).name
       /\ DeptOf(nodes, n) = Get(nodes, last.args[1]).name
       /\ ~Overlaps(nodes, nodePositions, m, last.args[1])
       /\ DeptOf(last.before[1], m) = Get(nodes, last.args[1]).name
       /\ DeptOf(nodes, m) = ""


\* C20: after updateGroupMembership or updateNodeMembership, every functional
\* node that was given a new, non-empty department has the name of a group
\* that no other group overlaps it more than
C20_AssignedIsMostOverlapping ==
  [][last'.cmd \in {"updateGroupMembership", "updateNodeMembership"}
     => \A n \in KeySet(nodes') :
          (/\ Get(nodes', n).type \in functionalTypes
           /\ Has(nodePositions', n)
           /\ DeptOf(nodes', n) # ""
           /\ DeptOf(nodes', n) # DeptOf(nodes, n))
          => \E i \in MostOverlapping(nodes', nodePositions', n) :
               nodes'[i].v.name = DeptOf(nodes', n)]_vars

\* updateGroupMembership has given a functional node the name of its group
\* although a group of another name overlaps that node more
C20_AssignedLesserGroup ==
  /\ last.cmd = "updateGroupMembership"
  /\ Has(nodes, last.args[1])
  /\ \E n \in KeySet(nodes) :
       /\ Get(nodes, n).type \in functionalTypes
       /\ Has(nodePositions, n)
       /\ DeptOf(nodes, n) = Get(nodes, last.args[1]).name
       /\ DeptOf(last.before[1], n) # DeptOf(nodes, n)
       /\ MostOverlapping(nodes, nodePositions, n) # {}
       /\ \A i \in MostOverlapping(nodes, nodePositions, n) :
            nodes[i].v.name # DeptOf(nodes, n)


\* node n has a geometry that overlaps the rectangle of no group
OutsideEveryGroup(map, positions, n) ==
  /\ Has(positions, n)
  /\ \A g \in KeySet(map) : Get(map, g).type = "group" => ~Overlaps(map, positions, n, g)

\* C21: when the pointer goes up after a movement that dragged nodes, every
\* functional node that was moved and that overlaps no group has the empty
\* department
C21_DraggedOutIsCleared ==
  [][(last'.cmd = "onCanvasMouseUp" /\ last.cmd = "onCanvasMouseMove")
     => \A n \in Range(last.args[1]) \cap KeySet(nodes') :
          (Get(nodes', n).type \in functionalTypes
           /\ OutsideEveryGroup(nodes', nodePositions', n))
          => DeptOf(nodes', n) = ""]_vars

\* a drag of two selected functional nodes has ended, both overlap no group,
\* and the one the pointer did not hold still has a department
C21_UnheldKeepsDepartment ==
  /\ last.cmd = "onCanvasMouseUp"
  /\ last.prev = "onCanvasMouseMove"
  /\ last.args[1] \in Range(selectedNodeIds)
  /\ \E n \in Range(selectedNodeIds) \ {last.args[1]} :
       /\ Has(nodes, n) /\ Get(nodes, n).type \in functionalTypes
       /\ OutsideEveryGroup(nodes, nodePositions, n)
       /\ DeptOf(nodes, n) # ""


\* the nodes of map whose department property is the string name
Members(map, name) ==
  {map[i].k : i \in {j \in 1..Len(map) :
                       HasField(map[j].v, "department") /\ map[j].v.department = name}}

\* C22: updateNode({name: B}) with a group named A selected, A # B, leaves
\* the group named B and every node whose department was A with department B
C22_RenamePropagates ==
  [][(last'.cmd = "updateNode" /\ HasField(last'.args[1], "name"))
     => \A g \in Range(selectedNodeIds) \cap KeySet(nodes) :
          (Get(nodes, g).type = "group" /\ Get(nodes, g).name # last'.args[1].name)
          => /\ Get(nodes', g).name = last'.args[1].name
             /\ Members(nodes, Get(nodes, g).name)
                  \subseteq Members(nodes', last'.args[1].name)]_vars

\* a selected group has been renamed and a node that had the old name as
\* department still has it
C22_RenameNotPropagated ==
  /\ last.cmd = "updateNode" /\ HasField(last.args[1], "name")
  /\ \E g \in Range(selectedNodeIds) \cap KeySet(last.before[1]) :
       /\ Get(last.before[1], g).type = "group"
       /\ Get(last.before[1], g).name # last.args[1].name
       /\ Get(nodes, g).name = last.args[1].name
       /\ \E n \in Members(last.before[1], Get(last.before[1], g).name) :
            n \in Members(nodes, Get(last.before[1], g).name)


\* C23: a second autoLayout right after a first one leaves the geometries and
\* the nodes, children orders included, as the first one left them
C23_LayoutIdempotent ==
  [][(last'.cmd = "autoLayout" /\ last.cmd = "autoLayout")
     => (nodePositions' = nodePositions /\ nodes' = nodes)]_vars

\* autoLayout has run twice in a row on a chart that is not the initial one
\* and that holds a note whose centre lies inside a group
C23_Witness ==
  /\ last.cmd = "autoLayout" /\ last.prev = "autoLayout"
  /\ nodePositions # FunctionalChart.pos
  /\ \E n, g \in KeySet(nodes) \cap KeySet(nodePositions) :
       /\ Get(nodes, n).type = "note" /\ Get(nodes, g).type = "group"
       /\ CenterInside(Get(nodePositions, n), Get(nodePositions, g))


\* the functional nodes that have a geometry: after autoLayout, the nodes the
\* tree algorithm placed
Placed(map, positions) ==
  {n \in KeySet(map) \cap KeySet(positions) : Get(map, n).type \in functionalTypes}
\* the x-origin of the layout slot of a placed node, whose width is the
\* measured width of its subtree and whose middle is the middle of the node
SlotOrigin(map, positions, n) ==
  Get(positions, n).x + NumOr(Get(positions, n), "width", 208) \div 2
    - measureSubtree(map, n) \div 2
\* the gap between the slots of the consecutive children c and d of one parent
SlotGap(map, positions, c, d) ==
  SlotOrigin(map, positions, d) - (SlotOrigin(map, positions, c) + measureSubtree(map, c))

\* C24: after autoLayout the slots of two consecutive placed children of one
\* parent are NODE_MARGIN apart when the two have the same department, and
\* otherwise GROUP_MARGIN apart plus GROUP_PADDING for each of the two whose
\* department is not empty
C24_SiblingSpacing ==
  [][last'.cmd = "autoLayout"
     => \A p \in KeySet(nodes') :
          LET children == Get(nodes', p).children
              placed == Placed(nodes', nodePositions')
          IN \A i \in 1..(Len(children) - 1) :
               (children[i] \in placed /\ children[i + 1] \in placed)
               => SlotGap(nodes', nodePositions', children[i], children[i + 1])
                  = IF DeptOf(nodes', children[i]) = DeptOf(nodes', children[i + 1])
                    THEN NODE_MARGIN
                    ELSE GROUP_MARGIN
                         + (IF DeptOf(nodes', children[i]) # "" THEN GROUP_PADDING ELSE 0)
                         + (IF DeptOf(nodes', children[i + 1]) # "" THEN GROUP_PADDING ELSE 0)]_vars

\* autoLayout has run on a chart where some parent has two consecutive placed
\* children of one department followed by a placed child of another
C24_Witness ==
  /\ last.cmd = "autoLayout"
  /\ \E p \in KeySet(nodes) :
       LET children == Get(nodes, p).children
       IN \E i \in 1..(Len(children) - 2) :
            /\ {children[i], children[i + 1], children[i + 2]} \subseteq Placed(nodes, nodePositions)
            /\ DeptOf(nodes, children[i]) = DeptOf(nodes, children[i + 1])
            /\ DeptOf(nodes, children[i]) # ""
            /\ DeptOf(nodes, children[i + 2]) \notin {"", DeptOf(nodes, children[i])}


\* the functional nodes with a geometry whose department is the name of group g
PlacedMembers(map, positions, g) ==
  {n \in Placed(map, positions) \ {g} :
     HasField(Get(map, n), "department") /\ Get(map, n).department = Get(map, g).name}

\* C25: after autoLayout a group with a placed member has the rectangle
\* x = minX - 100, y = minY - 100, width = (maxX - minX) + 200,
\* height = (maxY - minY) + 240 around the new rectangles of its placed
\* members, and a group without one has the geometry it had
C25_GroupBox ==
  [][last'.cmd = "autoLayout"
     => \A g \in {n \in KeySet(nodes') : Get(nodes', n).type = "group"} :
          LET members == PlacedMembers(nodes', nodePositions', g)
              P(m) == Get(nodePositions', m)
              minX == SetMin({P(m).x : m \in members})
              minY == SetMin({P(m).y : m \in members})
              maxX == SetMax({P(m).x + NumOr(P(m), "width", 208) : m \in members})
              maxY == SetMax({P(m).y + NumOr(P(m), "height", 100) : m \in members})
          IN IF members # {}
             THEN /\ Has(nodePositions', g)
                  /\ Get(nodePositions', g) = [x |-> minX - 100, y |-> minY - 100,
                                               width |-> (maxX - minX) + 200,
                                               height |-> (maxY - minY) + 240]
             ELSE /\ Has(nodePositions', g) = Has(nodePositions, g)
                  /\ Has(nodePositions, g) => Get(nodePositions', g) = Get(nodePositions, g)]_vars

\* autoLayout has given a new rectangle to a group with placed members and
\* has left alone a group without one
C25_Witness ==
  /\ last.cmd = "autoLayout"
  /\ \E g, h \in KeySet(nodes) \cap KeySet(nodePositions) :
       /\ Get(nodes, g).type = "group" /\ Get(nodes, h).type = "group"
       /\ PlacedMembers(nodes, nodePositions, g) # {}
       /\ Has(last.before[2], g) /\ Get(last.before[2], g) # Get(nodePositions, g)
       /\ PlacedMembers(nodes, nodePositions, h) = {}
       /\ Has(last.before[2], h) /\ Get(last.before[2], h) = Get(nodePositions, h)


\* the number of ancestors of node n in a tree where a node has one parent at most
RECURSIVE DepthOf(_, _)
DepthOf(map, n) ==
  LET parents == {p \in KeySet(map) : n \in Range(Get(map, p).children)}
  IN IF parents = {} THEN 0 ELSE 1 + DepthOf(map, CHOOSE p \in parents : TRUE)

\* C26: after autoLayout a node the tree algorithm placed at depth d has
\* y = d * LEVEL_HEIGHT, and its middle is the middle of its slot, which
\* starts where the slots of its left siblings and the margins end
C26_DepthAndCentre ==
  [][last'.cmd = "autoLayout"
     => \A n \in Placed(nodes', nodePositions') :
          /\ Get(nodePositions', n).y = DepthOf(nodes', n) * LEVEL_HEIGHT
          /\ \A p \in KeySet(nodes') :
               (Get(nodes', p).children # <<>> /\ Head(Get(nodes', p).children) = n
                /\ p \in Placed(nodes', nodePositions'))
               => SlotOrigin(nodes', nodePositions', n)
                  = SlotOrigin(nodes', nodePositions', p)
                    + (IF DeptOf(nodes', n) # "" THEN GROUP_PADDING ELSE 0)]_vars

\* autoLayout has placed a root, which is at depth 0, at a y that is not 0
C26_RootBelowZero ==
  /\ last.cmd = "autoLayout"
  /\ \E n \in Placed(nodes, nodePositions) :
       /\ DepthOf(nodes, n) = 0
       /\ Get(nodePositions, n).y # 0


\* the node rectangles of a and b have an intersection of positive area
NodesOverlap(positions, a, b) ==
  getOverlapArea(nodeRect(Get(positions, a)), nodeRect(Get(positions, b))) > 0
\* the children lists make a forest: every child is a node, no node is a
\* child twice or of two nodes, and no node is its own descendant
IsTree(map) ==
  /\ \A i \in 1..Len(map) : Range(map[i].v.children) \subseteq KeySet(map)
  /\ \A n \in KeySet(map) :
       Cardinality({<<i, j>> \in (1..Len(map)) \X (1..Len(map)) :
                      j <= Len(map[i].v.children) /\ map[i].v.children[j] = n}) <= 1
  /\ \A n \in KeySet(map) : n \notin Descendants(map, n)

\* C27: after autoLayout on a forest no two functional nodes have rectangles
\* that overlap
C27_NoOverlap ==
  [][(last'.cmd = "autoLayout" /\ IsTree(nodes'))
     => \A a, b \in Placed(nodes', nodePositions') :
          a # b => ~NodesOverlap(nodePositions', a, b)]_vars

\* autoLayout has left two functional nodes of a forest with overlapping
\* rectangles
C27_NodesOverlap ==
  /\ last.cmd = "autoLayout"
  /\ IsTree(nodes)
  /\ \E a, b \in Placed(nodes, nodePositions) :
       a # b /\ NodesOverlap(nodePositions, a, b)


\* the names of the group nodes of the store
GroupNames(map) == {map[i].v.name : i \in {j \in 1..Len(map) : map[j].v.type = "group"}}

\* C28: the department of a functional node is empty or the name of a group
\* node of the store
C28_DepartmentNamesGroup ==
  \A i \in 1..Len(nodes) :
    nodes[i].v.type \in functionalTypes
      => DeptOf(nodes, nodes[i].k) \in {""} \cup GroupNames(nodes)

\* deleteSelection has deleted a group and a functional node still has the
\* group's name as department, the name of no group of the store
C28_DeletedGroupName ==
  /\ last.cmd = "deleteSelection"
  /\ \E g \in KeySet(last.before[1]) \ KeySet(nodes) :
       /\ Get(last.before[1], g).type = "group"
       /\ Get(last.before[1], g).name \notin GroupNames(nodes)
       /\ \E i \in 1..Len(nodes) :
            /\ nodes[i].v.type \in functionalTypes
            /\ DeptOf(nodes, nodes[i].k) = Get(last.before[1], g).name


\* the commands of the service that call saveHistory
RecordingCommands ==
  {"addNode", "addMember", "linkNodes", "deleteSelection", "deleteDrawing", "addDrawing",
   "clearDrawings", "pasteNodes", "autoLayout", "loadFunctionalChart", "loadWhiteboard",
   "importFromJson", "deleteSelectedEdge"}

\* C29: the snapshots that a recording command has pushed on the undo stack
\* hold the nodes, the geometries and the drawings that the command started from
C29_SnapshotIsPreState ==
  [][(/\ last'.cmd \in RecordingCommands
      /\ last'.saves >= 1
      /\ Len(undoStack') = Len(undoStack) + last'.saves)
     => /\ SubSeq(undoStack', 1, Len(undoStack)) = undoStack
        /\ \A k \in (Len(undoStack) + 1)..Len(undoStack') :
             /\ undoStack'[k].nodes = nodes
             /\ undoStack'[k].positions = nodePositions
             /\ undoStack'[k].drawings = drawings]_vars

\* a recording command has pushed a snapshot and has changed the nodes, the
\* geometries or the drawings
C29_Witness ==
  /\ last.cmd \in RecordingCommands
  /\ last.saves >= 1
  /\ undoStack # <<>>
  /\ undoStack[Len(undoStack)].nodes = last.before[1]
  /\ undoStack[Len(undoStack)].positions = last.before[2]
  /\ last.before # <<nodes, nodePositions, drawings>>
  /\ last.before[1] # nodes /\ last.before[2] # nodePositions


\* C30: autoLayout removes no geometry: a node that had a geometry before
\* autoLayout has one after it
C30_LayoutKeepsGeometries ==
  [][last'.cmd = "autoLayout"
     => \A n \in KeySet(nodes) \cap KeySet(nodePositions) : Has(nodePositions', n)]_vars

\* autoLayout has run and a functional node that is the child of a node that
\* is not functional has lost the geometry it had
C30_GeometryLost ==
  /\ last.cmd = "autoLayout"
  /\ \E n \in KeySet(nodes) \cap KeySet(last.before[2]) :
       /\ Get(nodes, n).type \in functionalTypes
       /\ ~Has(nodePositions, n)
       /\ \E p \in KeySet(nodes) : /\ Get(nodes, p).type \notin functionalTypes
                                  /\ n \in Range(Get(nodes, p).children)


\* C31: after autoLayout the children of every node are in non-decreasing
\* order of department (the empty department first, so equal departments are
\* contiguous), they are the same children as before, and two siblings of the
\* same department keep the relative order they had before autoLayout
SortedByDepartment(map, children) ==
  \A i, j \in 1..Len(children) :
     i < j => DeptRank(DeptOf(map, children[i])) <= DeptRank(DeptOf(map, children[j]))
PositionIn(children, id) == CHOOSE i \in 1..Len(children) : children[i] = id
StableFrom(map, before, after) ==
  /\ Len(after) = Len(before)
  /\ Range(after) = Range(before)
  /\ \A a, b \in Range(before) :
        (DeptOf(map, a) = DeptOf(map, b)
         /\ PositionIn(before, a) < PositionIn(before, b))
        => PositionIn(after, a) < PositionIn(after, b)
C31_ChildrenSortedStable ==
  [][last'.cmd = "autoLayout"
     => \A p \in KeySet(nodes') :
           /\ SortedByDepartment(nodes', ChildrenOf(nodes', p))
           /\ StableFrom(nodes', ChildrenOf(nodes, p), ChildrenOf(nodes', p))]_vars
C31_Witness ==
  /\ last.cmd = "autoLayout"
  /\ \E p \in KeySet(nodes) :
        LET before == ChildrenOf(last.before[1], p)
        IN /\ ChildrenOf(nodes, p) # before
           /\ \E a, b \in Range(before) : a # b /\ DeptOf(nodes, a) = DeptOf(nodes, b)


\* C32: after autoLayout a text, note or shape node whose centre lay inside a
\* group's rectangle is at that group's new corner plus its old offset from
\* the group's corner, with its width and height unchanged; a text, note or
\* shape node whose centre lay inside no group keeps its geometry
Freeform(map) == {n \in KeySet(map) : Get(map, n).type \in {"text", "note", "shape"}}
GroupsAround(map, positions, n) ==
  {g \in KeySet(map) : /\ Get(map, g).type = "group"
                       /\ Has(positions, g)
                       /\ CenterInside(Get(positions, n), Get(positions, g))}
Rides(old, new, oldGroup, newGroup) ==
  new = With(With(old, "x", newGroup.x + (old.x - oldGroup.x)),
             "y", newGroup.y + (old.y - oldGroup.y))
C32_AnchoredFollowGroup ==
  [][last'.cmd = "autoLayout"
     => \A n \in Freeform(nodes) \cap KeySet(nodePositions) :
           /\ Has(nodePositions', n)
           /\ IF GroupsAround(nodes, nodePositions, n) = {}
              THEN Get(nodePositions', n) = Get(nodePositions, n)
              ELSE \E g \in GroupsAround(nodes, nodePositions, n) :
                      /\ Has(nodePositions', g)
                      /\ Rides(Get(nodePositions, n), Get(nodePositions', n),
                               Get(nodePositions, g), Get(nodePositions', g))]_vars
C32_Witness ==
  /\ last.cmd = "autoLayout"
  /\ \E n \in Freeform(nodes) \cap KeySet(last.before[2]) :
        /\ GroupsAround(last.before[1], last.before[2], n) # {}
        /\ Get(nodePositions, n) # Get(last.before[2], n)
C32_WitnessOutside ==
  /\ last.cmd = "autoLayout"
  /\ \E n \in Freeform(nodes) \cap KeySet(last.before[2]) :
        GroupsAround(last.before[1], last.before[2], n) = {}


\* C33: what pasteNodes creates is a function of the clipboard alone, whatever
\* happened to the originals since the copy; the clipboard changes only in a
\* copySelection of a non-empty selection, and then it holds exactly the
\* selected nodes and drawings as they are at that moment
CreatedBy(before, after) ==
  [nodes |-> SelectSeq(after.nodes, LAMBDA e : ~Has(before.nodes, e.k)),
   pos |-> SelectSeq(after.pos, LAMBDA e : ~Has(before.pos, e.k)),
   drawings |-> SelectSeq(after.drawings,
                          LAMBDA d : \A i \in 1..Len(before.drawings) :
                                        before.drawings[i].id # d.id)]
OnBlankChart(S) == [S EXCEPT !.nodes = <<>>, !.pos = <<>>, !.drawings = <<>>]
TakenFromSelection(item) ==
  IF item.type = "node"
  THEN /\ item.data.id \in Range(selectedNodeIds)
       /\ Has(nodes, item.data.id) /\ Has(nodePositions, item.data.id)
       /\ item.data = Get(nodes, item.data.id)
       /\ item.x = Get(nodePositions, item.data.id).x
       /\ item.y = Get(nodePositions, item.data.id).y
  ELSE /\ item.data.id \in Range(selectedDrawingIds)
       /\ \E i \in 1..Len(drawings) : drawings[i] = item.data
C33_PasteDependsOnCopy ==
  [][/\ last'.cmd = "pasteNodes"
        => \E p \in PastePoints :
              CreatedBy(Cur, [nodes |-> nodes', pos |-> nodePositions', drawings |-> drawings'])
              = CreatedBy(OnBlankChart(Cur), pasteNodes(OnBlankChart(Cur), p[1], p[2]))
     /\ clipboard' # clipboard
        => /\ last'.cmd = "copySelection"
           /\ selectedNodeIds # <<>> \/ selectedDrawingIds # <<>>
           /\ \A i \in 1..Len(clipboard') : TakenFromSelection(clipboard'[i])
           /\ \A i, j \in 1..Len(clipboard') :
                 clipboard'[i].data.id = clipboard'[j].data.id => i = j]_vars
\* a paste after the copied node was renamed, moved or deleted
C33_Witness ==
  /\ last.cmd = "pasteNodes"
  /\ \E i \in 1..Len(clipboard) :
        /\ clipboard[i].type = "node"
        /\ \/ ~Has(last.before[1], clipboard[i].data.id)
           \/ Get(last.before[1], clipboard[i].data.id) # clipboard[i].data
           \/ Get(last.before[2], clipboard[i].data.id).x # clipboard[i].x
  /\ \E n \in KeySet(nodes) : ~Has(last.before[1], n)


\* C34: updateNodePosition and updateNodeDimensions called with an id that
\* has no node record create no geometry record: every key they add to the
\* geometries is the id of a node
C34_NoGeometryForUnknownId ==
  [][last'.cmd \in {"updateNodePosition", "updateNodeDimensions"}
     => KeySet(nodePositions') \ KeySet(nodePositions) \subseteq KeySet(nodes)]_vars
C34_GeometryWithoutNode ==
  /\ last.cmd \in {"updateNodePosition", "updateNodeDimensions"}
  /\ \E id \in KeySet(nodePositions) : ~Has(last.before[2], id) /\ ~Has(nodes, id)


\* C35: while the redo stack is non-empty, nodes, geometries and drawings are
\* as the most recent undo or redo left them: a command other than undo and
\* redo that leaves redo entries leaves nodes, geometries and drawings unchanged
C35_RedoMeansUntouched ==
  [][(redoStack' # <<>> /\ last'.cmd \notin {"undo", "redo"})
     => <<nodes', nodePositions', drawings'>> = <<nodes, nodePositions, drawings>>]_vars
C35_ChangedUnderRedo ==
  /\ redoStack # <<>>
  /\ last.cmd = "updateNodePosition"
  /\ last.prev = "undo"
  /\ nodePositions # last.before[2]


\* C36: a command pushes at most one snapshot on the undo stack, and a command
\* that leaves nodes, geometries and drawings unchanged pushes none
C36_AtMostOneSnapshot ==
  [][/\ last'.saves <= 1
     /\ <<nodes', nodePositions', drawings'>> = <<nodes, nodePositions, drawings>>
        => last'.saves = 0]_vars
\* addMember has pushed the same snapshot twice
C36_TwoSnapshots ==
  /\ last.cmd = "addMember"
  /\ last.saves = 2
  /\ Len(undoStack) >= 2
  /\ undoStack[Len(undoStack)] = undoStack[Len(undoStack) - 1]
\* deleteDrawing of an unknown id has pushed a snapshot and changed nothing
C36_SnapshotOfNoChange ==
  /\ last.cmd = "deleteDrawing"
  /\ last.saves = 1
  /\ last.before = <<nodes, nodePositions, drawings>>


\* C37: one undo after a completed drag of a node (mouse-down on the node, any
\* number of moves, mouse-up with its membership update) restores the nodes,
\* with their departments, and the geometries as they were at mouse-down
C37_DragIsOneUndoStep ==
  [][(last'.cmd = "undo" /\ last.cmd = "onCanvasMouseUp")
     => /\ nodes' = last.down[1]
        /\ nodePositions' = last.down[2]]_vars
\* the drag had moved a node and changed a department
C37_Witness ==
  /\ last.cmd = "undo" /\ last.prev = "onCanvasMouseUp"
  /\ last.before[1] # last.down[1]
  /\ last.before[2] # last.down[2]
  /\ nodes = last.down[1]
  /\ nodePositions = last.down[2]


\* C38: every selected node id is the id of an existing node and every
\* selected drawing id is the id of an existing drawing; delete, paste, undo,
\* redo, import and the template loaders keep it so (a select command adds
\* the id it is given)
SelectionExists(map, list, selN, selD) ==
  /\ Range(selN) \subseteq KeySet(map)
  /\ Range(selD) \subseteq {list[i].id : i \in 1..Len(list)}
C38_SelectionExists ==
  [][(/\ SelectionExists(nodes, drawings, selectedNodeIds, selectedDrawingIds)
      /\ last'.cmd \in {"deleteSelection", "deleteDrawing", "pasteNodes", "undo", "redo",
                        "importFromJson", "loadFunctionalChart", "loadWhiteboard"})
     => SelectionExists(nodes', drawings', selectedNodeIds', selectedDrawingIds')]_vars
\* the template was loaded over a chart whose selected node is not in the template
C38_GhostSelection ==
  /\ last.cmd = "loadFunctionalChart"
  /\ \E id \in Range(selectedNodeIds) : Has(last.before[1], id) /\ ~Has(nodes, id)


\* C39: from any state, for any k up to the length of the undo stack, k calls
\* of undo followed by k calls of redo give back the nodes, geometries and
\* drawings, an undo stack of the same length with equal snapshots, and an
\* empty redo stack when it was empty
RECURSIVE UndoTimes(_, _)
UndoTimes(S, k) == IF k = 0 THEN S ELSE UndoTimes(undo(S), k - 1)
RECURSIVE RedoTimes(_, _)
RedoTimes(S, k) == IF k = 0 THEN S ELSE RedoTimes(redo(S), k - 1)
RoundTrip(S, R) ==
  /\ <<R.nodes, R.pos, R.drawings>> = <<S.nodes, S.pos, S.drawings>>
  /\ Len(R.undo) = Len(S.undo)
  /\ R.undo = S.undo
  /\ S.redo = <<>> => R.redo = <<>>
C39_UndoRedoRoundTrip ==
  \A k \in 0..Len(undoStack) : RoundTrip(Cur, RedoTimes(UndoTimes(Cur, k), k))
\* after an undo and a redo: two undos and two redos from here pass through
\* two other states
C39_Witness ==
  /\ last.cmd = "redo" /\ last.prev = "undo"
  /\ Len(undoStack) >= 2 /\ redoStack = <<>>
  /\ UndoTimes(Cur, 1).drawings # drawings
  /\ UndoTimes(Cur, 2).pos # UndoTimes(Cur, 1).pos
  /\ RedoTimes(UndoTimes(Cur, 2), 2).drawings = drawings


\* C40: an importFromJson that fails while the data is applied and rolls back
\* leaves the undo stack with the snapshots it held before the call, in the
\* same order, also when the stack held maxHistorySize snapshots
C40_RollbackKeepsUndoStack ==
  [][(/\ last'.cmd = "importFromJson"
      /\ last'.args[1].isArray.nodes /\ last'.args[1].isArray.positions
      /\ ~last'.args[1].entriesOk)
     => undoStack' = undoStack]_vars
\* after maxHistorySize recorded commands and a failed import: one snapshot
\* less, and the oldest one (the chart without drawings) is gone
C40_OldestSnapshotLost ==
  /\ last.cmd = "importFromJson" /\ ~last.args[1].entriesOk
  /\ Len(drawings) = maxHistorySize
  /\ Len(undoStack) = maxHistorySize - 1
  /\ undoStack[1].drawings # <<>>

=============================================================================
